---- MODULE Spec2Model ----
(***************************************************************************)
(* Scenario engine of mcp-foundry (src/mcp_modules/scenario.py): the YAML  *)
(* text normalizer, the schema parser with its step canonicalizer, the     *)
(* assertion evaluator and the sequential scenario executor.               *)
(*                                                                         *)
(* Python strings are TLA+ strings (sequences of characters); the decoded  *)
(* YAML document is a tree of tagged records; the node (the cast/anvil     *)
(* subprocesses) is an environment whose answers are chosen with \E.       *)
(***************************************************************************)
EXTENDS Integers, Sequences, FiniteSets, TLC

VARIABLES
    entry,      \* _parse_step: the step entry handed to it (step_data)
    iterOrder,  \* _parse_step: iteration order of the set supported_step_types
    pstep,      \* _parse_step: what it returned or raised
    handler,    \* _execute_step: the branch taken for the parsed step
    arg_actual,   \* _check_expectation: its first argument
    arg_expected, \* _check_expectation: its second argument
    given,      \* the operator and the numbers actual and expected were written from
    outcome,    \* _check_expectation: returned or raised
    yaml_doc,   \* parse_yaml: what yaml.safe_load gave for the text
    parsed,     \* parse_yaml: returned or raised
    scenario,   \* the Scenario object, as the handlers have left it
    accounts,   \* ScenarioExecutor.accounts
    pc,         \* where the run is: parse .. Completed | Failed
    steps_executed, \* execute_scenario: its counter
    result,     \* the ExecutionResult returned, YNull before
    nodeCalls,  \* the cast calls the step handlers issued, with the step index
    dispatched, \* the handler invocations so far: index, type, outcome
    raw_text,   \* _normalize_yaml_variables: the text handed to it
    first_pass, \* what it returned for raw_text
    second_pass, \* what it returned for its own result
    lock,       \* AnvilWrapper._lock: "free", or the thread that holds it
    process,    \* AnvilWrapper.process and the state of the anvil process
    call,       \* per thread: the method it called, where it is, its result
    polls,      \* _wait_for_startup: iterations of its loop so far
    to_save,    \* save_scenario: the Scenario handed to it
    written,    \* save_scenario: the document it wrote
    reloaded    \* parse_yaml: what it made of the written document

stepVars == <<entry, iterOrder, pstep, handler>>
checkVars == <<arg_actual, arg_expected, given, outcome>>
runVars == <<yaml_doc, parsed, scenario, accounts, pc, steps_executed, result,
             nodeCalls, dispatched>>
normVars == <<raw_text, first_pass, second_pass>>
anvilVars == <<lock, process, call, polls>>
saveVars == <<to_save, written, reloaded>>
vars == <<stepVars, checkVars, runVars, normVars, anvilVars, saveVars>>

(***************************************************************************)
(* Python str operations                                                   *)
(***************************************************************************)
UpperChars == "ABCDEFGHIJKLMNOPQRSTUVWXYZ"
LowerChars == "abcdefghijklmnopqrstuvwxyz"

\* s[i] for a 1-based index i
CharAt(s, i) == SubSeq(s, i, i)

\* sub in s
IsIn(sub, s) ==
    \E i \in 0..(Len(s) - Len(sub)) : SubSeq(s, i + 1, i + Len(sub)) = sub

\* s.startswith(p)
StartsWith(s, p) == Len(s) >= Len(p) /\ SubSeq(s, 1, Len(p)) = p

\* s.endswith(p)
EndsWith(s, p) == Len(s) >= Len(p) /\ SubSeq(s, Len(s) - Len(p) + 1, Len(s)) = p

\* c.lower() for a single character
LowerChar(c) ==
    IF \E i \in 1..Len(UpperChars) : CharAt(UpperChars, i) = c
    THEN LET i == CHOOSE j \in 1..Len(UpperChars) : CharAt(UpperChars, j) = c
         IN  CharAt(LowerChars, i)
    ELSE c

RECURSIVE Lower(_)
\* s.lower(), character by character
Lower(s) ==
    IF s = "" THEN ""
    ELSE IF Len(s) = 1 THEN LowerChar(s)
    ELSE Lower(SubSeq(s, 1, Len(s) \div 2))
           \o Lower(SubSeq(s, Len(s) \div 2 + 1, Len(s)))

\* the k-th smallest member of a set of positions
NthOf(pos, k) == CHOOSE i \in pos : Cardinality({j \in pos : j < i}) = k - 1

\* s.split(sep) for a one-character separator: the pieces between the
\* positions of sep
Split(s, sep) ==
    LET pos == {i \in 1..Len(s) : CharAt(s, i) = sep}
        n == Cardinality(pos)
    IN  [k \in 1..(n + 1) |->
            SubSeq(s, IF k = 1 THEN 1 ELSE NthOf(pos, k - 1) + 1,
                      IF k = n + 1 THEN Len(s) ELSE NthOf(pos, k) - 1)]

\* all orderings of a finite set, as sequences
RECURSIVE Orderings(_)
Orderings(S) ==
    IF S = {} THEN {<<>>}
    ELSE UNION {{<<x>> \o p : p \in Orderings(S \ {x})} : x \in S}

(***************************************************************************)
(* The decoded YAML document (what yaml.safe_load returns)                 *)
(***************************************************************************)
YNull == [ty |-> "null"]
YStr(s) == [ty |-> "str", s |-> s]
YInt(n) == [ty |-> "int", n |-> n]
YSeq(elems) == [ty |-> "seq", elems |-> elems]
\* a mapping keeps its insertion order: a sequence of <<key, value>> pairs
YMap(items) == [ty |-> "map", items |-> items]

IsStr(v) == v.ty = "str"
IsMap(v) == v.ty = "map"
IsSeq(v) == v.ty = "seq"

\* list(d.keys())
Keys(m) == [i \in 1..Len(m.items) |-> m.items[i][1]]
\* k in d
Has(m, k) == \E i \in 1..Len(m.items) : m.items[i][1] = k
\* d[k] / d.get(k) -> None when absent
Get(m, k) ==
    IF Has(m, k)
    THEN m.items[CHOOSE i \in 1..Len(m.items) : m.items[i][1] = k][2]
    ELSE YNull
\* d.get(k, default)
GetOr(m, k, default) == IF Has(m, k) THEN Get(m, k) ELSE default
\* {k: v for k, v in d.items() if k != key}
Without(m, key) ==
    LET Keep(kv) == kv[1] # key IN YMap(SelectSeq(m.items, Keep))
\* d[k] = v on an insertion-ordered dict
Put(m, k, v) ==
    IF Has(m, k)
    THEN YMap([i \in 1..Len(m.items) |->
                 IF m.items[i][1] = k THEN <<k, v>> ELSE m.items[i]])
    ELSE YMap(Append(m.items, <<k, v>>))
\* len(x) of a decoded value; -1 stands for the TypeError of len(None)/len(int)
PyLen(v) ==
    CASE v.ty = "map" -> Len(v.items)
      [] v.ty = "seq" -> Len(v.elems)
      [] v.ty = "str" -> Len(v.s)
      [] OTHER -> -1
\* bool(x)
Truthy(v) ==
    CASE v.ty = "null" -> FALSE
      [] v.ty = "int" -> v.n # 0
      [] OTHER -> PyLen(v) > 0

(***************************************************************************)
(* StepType and the canonicalizer of ScenarioParser._parse_step            *)
(***************************************************************************)
StepTypeValues ==
    <<"send", "call", "wait", "time_travel", "snapshot", "revert", "assert",
      "deploy", "mine", "set_balance", "set_storage", "label", "action">>

\* self.supported_step_types
supported_step_types == {StepTypeValues[i] : i \in 1..Len(StepTypeValues)}

\* variant: the table also lists a kind name, mine, as an alias of wait
step_aliases_Shadow ==
    [action |-> "send", transaction |-> "send", invoke |-> "send",
     execute |-> "send", query |-> "call", read |-> "call",
     check |-> "assert", verify |-> "assert", expect |-> "assert",
     sleep |-> "wait", pause |-> "wait", delay |-> "wait", mine |-> "wait",
     jump |-> "time_travel", advance |-> "time_travel",
     save |-> "snapshot", restore |-> "revert", rollback |-> "revert",
     create |-> "deploy", instantiate |-> "deploy",
     comment |-> "label", note |-> "label", log |-> "label", print |-> "label",
     send_transaction |-> "send", call_function |-> "call",
     assert_condition |-> "assert", wait_blocks |-> "wait",
     time_travel_forward |-> "time_travel", create_snapshot |-> "snapshot",
     revert_to_snapshot |-> "revert", deploy_contract |-> "deploy",
     mine_blocks |-> "mine", set_account_balance |-> "set_balance",
     set_contract_storage |-> "set_storage"]

step_aliases ==
    [action |-> "send", transaction |-> "send", invoke |-> "send",
     execute |-> "send", query |-> "call", read |-> "call",
     check |-> "assert", verify |-> "assert", expect |-> "assert",
     sleep |-> "wait", pause |-> "wait", delay |-> "wait",
     jump |-> "time_travel", advance |-> "time_travel",
     save |-> "snapshot", restore |-> "revert", rollback |-> "revert",
     create |-> "deploy", instantiate |-> "deploy",
     comment |-> "label", note |-> "label", log |-> "label", print |-> "label",
     send_transaction |-> "send", call_function |-> "call",
     assert_condition |-> "assert", wait_blocks |-> "wait",
     time_travel_forward |-> "time_travel", create_snapshot |-> "snapshot",
     revert_to_snapshot |-> "revert", deploy_contract |-> "deploy",
     mine_blocks |-> "mine", set_account_balance |-> "set_balance",
     set_contract_storage |-> "set_storage"]

\* variant: an exact kind match is taken before the alias table
ApplyAlias_ExactFirst(tok) ==
    IF tok \in supported_step_types THEN tok
    ELSE IF Lower(tok) \in DOMAIN step_aliases THEN step_aliases[Lower(tok)]
    ELSE tok

\* the alias lookup, applied whether or not the token is already a kind
ApplyAlias(tok) ==
    IF Lower(tok) \in DOMAIN step_aliases THEN step_aliases[Lower(tok)] ELSE tok

\* the test that puts a supported type into similar_types
IsSimilar(tok, supported) ==
    \/ IsIn(Lower(tok), Lower(supported))
    \/ IsIn(Lower(supported), Lower(tok))
    \/ \E i \in 1..Len(Split(Lower(tok), "_")) :
          Split(Lower(tok), "_")[i] = Lower(supported)

\* similar_types, in the order the set supported_step_types is iterated
SimilarTypes(tok, order) ==
    LET Test(k) == IsSimilar(tok, k) IN SelectSeq(order, Test)

RECURSIVE BestMatchFrom(_, _, _, _)
\* the loop over similar_types: the first type contained in the token wins
\* (break), otherwise a strictly longer type replaces the current best
BestMatchFrom(tok, similar, i, best) ==
    IF i > Len(similar) THEN best
    ELSE IF IsIn(Lower(similar[i]), Lower(tok)) THEN similar[i]
    ELSE IF Len(similar[i]) > Len(best)
         THEN BestMatchFrom(tok, similar, i + 1, similar[i])
         ELSE BestMatchFrom(tok, similar, i + 1, best)

BestMatch(tok, similar) == BestMatchFrom(tok, similar, 1, similar[1])

\* variant: no catch-all, the unmatched token is kept
FuzzyFallback_NoDefault(tok, order) ==
    LET similar == SimilarTypes(tok, order)
    IN  IF similar # <<>> THEN BestMatch(tok, similar) ELSE tok

\* the fuzzy fallback and the default, for a token that is no supported type
FuzzyFallback(tok, order) ==
    LET similar == SimilarTypes(tok, order)
    IN  IF similar # <<>> THEN BestMatch(tok, similar) ELSE "action"

\* step_type_str after the alias table, the fuzzy fallback and the default
Canonicalize(tok, order) ==
    LET mapped == ApplyAlias(tok)
    IN  IF mapped \in supported_step_types THEN mapped
        ELSE FuzzyFallback(mapped, order)

\* the types whose relative iteration order a token's result can depend on:
\* none when the alias table or the exact match already settles the token
FuzzyCandidates(tok) ==
    IF ApplyAlias(tok) \in supported_step_types THEN {}
    ELSE {k \in supported_step_types : IsSimilar(ApplyAlias(tok), k)}

\* The iteration orders of supported_step_types that matter for the tokens
\* of one parse: a Python set of str iterates in a hash-seed dependent order
\* that stays the same while the set is not changed, and the loops read only
\* the types that match a token, so every order of the matching types is
\* taken, followed by the other types in declaration order.
IterationOrders(toks) ==
    LET sim == UNION {FuzzyCandidates(t) : t \in toks}
        NotSim(k) == k \notin sim
    IN  {p \o SelectSeq(StepTypeValues, NotSim) : p \in Orderings(sim)}

(***************************************************************************)
(* Python str.strip() and int()                                            *)
(***************************************************************************)
IsSpace(c) == c \in {" ", "\t", "\n", "\r"}

RECURSIVE LStrip(_)
LStrip(s) == IF s # "" /\ IsSpace(Head(s)) THEN LStrip(Tail(s)) ELSE s

RECURSIVE RStrip(_)
RStrip(s) ==
    IF s # "" /\ IsSpace(CharAt(s, Len(s)))
    THEN RStrip(SubSeq(s, 1, Len(s) - 1)) ELSE s

\* s.strip()
Strip(s) == RStrip(LStrip(s))

DigitChars == "0123456789abcdef"

\* the value of a digit in a base, -1 when it is no digit of that base
DigitVal(c, base) ==
    LET hit == {i \in 1..base : CharAt(DigitChars, i) = LowerChar(c)}
    IN  IF hit = {} THEN -1 ELSE (CHOOSE i \in hit : TRUE) - 1

\* digits with single underscores between them
ValidDigits(d, base) ==
    /\ d # ""
    /\ CharAt(d, Len(d)) # "_"
    /\ ~IsIn("__", d)
    /\ \A i \in 1..Len(d) : CharAt(d, i) = "_" \/ DigitVal(CharAt(d, i), base) >= 0

RECURSIVE DigitsValue(_, _, _)
DigitsValue(d, base, acc) ==
    IF d = "" THEN acc
    ELSE IF Head(d) = "_" THEN DigitsValue(Tail(d), base, acc)
    ELSE DigitsValue(Tail(d), base, acc * base + DigitVal(Head(d), base))

IntOk(n) == [ok |-> TRUE, n |-> n]
IntError(s, base) ==
    [ok |-> FALSE,
     msg |-> "invalid literal for int() with base " \o ToString(base)
               \o ": '" \o s \o "'"]

\* the digits after the sign and the base prefix: valid ones give the number
IntOfDigits(d, negative, s, base) ==
    IF d # "" /\ Head(d) # "_" /\ ValidDigits(d, base)
    THEN IntOk((IF negative THEN -1 ELSE 1) * DigitsValue(d, base, 0))
    ELSE IntError(s, base)

\* the text after the sign: base 16 takes a 0x prefix, and one underscore
\* may follow the prefix
Unprefixed(body, base) ==
    IF base = 16 /\ StartsWith(Lower(body), "0x")
    THEN IF Len(body) > 2 /\ CharAt(body, 3) = "_"
         THEN SubSeq(body, 4, Len(body))
         ELSE SubSeq(body, 3, Len(body))
    ELSE body

\* the stripped text: an optional sign, then the digits
IntOfStripped(t, s, base) ==
    IntOfDigits(Unprefixed(IF t # "" /\ Head(t) \in {"+", "-"} THEN Tail(t) ELSE t,
                           base),
                t # "" /\ Head(t) = "-", s, base)

\* int(s, base) for base 10 and base 16
PyInt(s, base) == IntOfStripped(Strip(s), s, base)

(***************************************************************************)
(* ScenarioExecutor._check_expectation                                     *)
(***************************************************************************)
Raised(exc, msg) == [st |-> "raised", exc |-> exc, msg |-> msg]
Returned == [st |-> "returned"]
Pending == [st |-> "pending"]

\* variant: actual is always read in base 10
ActualValue_Base10(actual) == PyInt(actual, 10)

\* int(actual, 16) if actual.startswith('0x') else int(actual)
ActualValue(actual) ==
    PyInt(actual, IF StartsWith(actual, "0x") THEN 16 ELSE 10)

\* the comparison that raises: actual_value <= expected_value under ">",
\* actual_value >= expected_value under "<"
NumericFails(sign, av, ev) == IF sign = ">" THEN av <= ev ELSE av >= ev

\* a numeric branch once both int() calls are made: the operand's error
\* comes first, then the actual's, then the comparison
Compared(av, ev, sign) ==
    IF ~ev.ok THEN Raised("ValueError", ev.msg)
    ELSE IF ~av.ok THEN Raised("ValueError", av.msg)
    ELSE IF NumericFails(sign, av.n, ev.n)
         THEN Raised("AssertionError",
                     "Expected " \o sign \o " " \o ToString(ev.n)
                       \o ", got " \o ToString(av.n))
         ELSE Returned

\* the two numeric branches, which differ in the comparison only
NumericCheck(actual, expected, sign) ==
    Compared(ActualValue(actual),
             PyInt(Strip(SubSeq(expected, 2, Len(expected))), 10), sign)

\* the outcome of the "==" and "!=" branches for the stripped operand
Matched(actual, operand, negated) ==
    IF ~negated /\ actual # operand
    THEN Raised("AssertionError", "Expected " \o operand \o ", got " \o actual)
    ELSE IF negated /\ actual = operand
    THEN Raised("AssertionError",
                "Expected not " \o operand \o ", got " \o actual)
    ELSE Returned

\* _check_expectation(actual, expected) for a str expected: the branches
\* are tried in the order "==", "!=", ">", "<"
CheckExpectation(actual, expected) ==
    IF StartsWith(expected, "==") \/ StartsWith(expected, "!=")
    THEN Matched(actual, Strip(SubSeq(expected, 3, Len(expected))),
                 StartsWith(expected, "!="))
    ELSE IF StartsWith(expected, ">") \/ StartsWith(expected, "<")
    THEN NumericCheck(actual, expected, SubSeq(expected, 1, 1))
    ELSE Raised("ValueError", "Unsupported expectation format: " \o expected)

\* the same call with expected as decoded from the document: a value that
\* is no str has no startswith
CheckExpectationValue(actual, expected) ==
    IF IsStr(expected) THEN CheckExpectation(actual, expected.s)
    ELSE Raised("AttributeError", "object has no attribute 'startswith'")

(***************************************************************************)
(* ScenarioParser._parse_step                                              *)
(***************************************************************************)
\* the key of a multi-key entry that is a supported type, first in key order
FirstSupportedKey(step_data) ==
    LET ks == Keys(step_data)
        hit == {i \in 1..Len(ks) : ks[i] \in supported_step_types}
    IN  IF hit = {} THEN ""
        ELSE ks[CHOOSE i \in hit : \A j \in hit : i <= j]

\* the key taken as the step-kind token, before the `type` promotion
ChosenKey(step_data) ==
    IF Len(step_data.items) = 1 THEN step_data.items[1][1]
    ELSE IF FirstSupportedKey(step_data) # "" THEN FirstSupportedKey(step_data)
    ELSE step_data.items[1][1]

\* a chosen key `type` holding a string is replaced by that string
TypePromoted(step_data) ==
    ChosenKey(step_data) = "type" /\ IsStr(Get(step_data, "type"))

\* step_type_str as handed to the alias table
StepToken(step_data) ==
    IF TypePromoted(step_data) THEN Get(step_data, "type").s
    ELSE ChosenKey(step_data)

\* step_content
StepContent(step_data) ==
    IF TypePromoted(step_data) THEN Without(step_data, "type")
    ELSE Get(step_data, ChosenKey(step_data))

\* step_data_dict
StepDataDict(step_data) ==
    LET content == StepContent(step_data)
    IN  IF IsMap(content) THEN content ELSE YMap(<<<<"value", content>>>>)

\* StepType(step_type_str): the Enum constructor raises on an unlisted value
MakeStep(kind, data) ==
    IF kind \in supported_step_types
    THEN [st |-> "ok", type |-> kind, data |-> data,
          description |-> Get(data, "description"),
          gas_limit |-> Get(data, "gas_limit"),
          gas_price |-> Get(data, "gas_price")]
    ELSE Raised("ValueError", "not a valid StepType")

ParseStep(step_data, order) ==
    CASE PyLen(step_data) = -1 -> Raised("TypeError", "object has no len()")
      [] PyLen(step_data) = 0 -> Raised("ValueError", "Step cannot be empty")
      [] PyLen(step_data) > 0 /\ ~IsMap(step_data) ->
            Raised("AttributeError", "object has no attribute items/keys")
      [] OTHER ->
            MakeStep(Canonicalize(StepToken(step_data), order),
                     StepDataDict(step_data))

\* the iteration orders that matter for an entry
EntryOrders(step_data) ==
    IF IsMap(step_data) /\ PyLen(step_data) > 0
    THEN IterationOrders({StepToken(step_data)})
    ELSE {StepTypeValues}

(***************************************************************************)
(* ScenarioExecutor._execute_step: the branch taken for a step type        *)
(***************************************************************************)
HandlerOf(kind) ==
    CASE kind = "send" -> "_execute_send"
      [] kind = "call" -> "_execute_call"
      [] kind = "wait" -> "_execute_wait"
      [] kind = "time_travel" -> "_execute_time_travel"
      [] kind = "snapshot" -> "_execute_snapshot"
      [] kind = "revert" -> "_execute_revert"
      [] kind = "assert" -> "_execute_assert"
      [] kind = "deploy" -> "_execute_deploy"
      [] kind = "mine" -> "_execute_mine"
      [] kind = "set_balance" -> "_execute_set_balance"
      [] kind = "set_storage" -> "_execute_set_storage"
      [] kind = "label" -> "_execute_label"
      [] kind = "action" -> "_execute_action"
      [] OTHER -> "unsupported"

(***************************************************************************)
(* ScenarioParser._normalize_yaml_variables: four re.sub calls, each        *)
(* replacing the leftmost matches from left to right, then the repair of   *)
(* the indentation                                                         *)
(***************************************************************************)
WordChars == LowerChars \o UpperChars \o "0123456789_"
IdentStartChars == LowerChars \o UpperChars \o "_"
DecimalChars == "0123456789"
SpaceChars == " \t\n\r"

\* the text has the character c, or the text p, at position i
CharIs(s, i, c) == i >= 1 /\ i <= Len(s) /\ CharAt(s, i) = c
StartsWithAt(s, i, p) ==
    i >= 1 /\ i + Len(p) - 1 <= Len(s) /\ SubSeq(s, i, i + Len(p) - 1) = p

\* the character at position i is one of chars
CharIn(s, i, chars) == i >= 1 /\ i <= Len(s) /\ IsIn(CharAt(s, i), chars)

\* the end of the longest run of characters of chars that starts at i
\* (i - 1 when the run is empty)
ClassRunEnd(s, i, chars) ==
    LET bad == {k \in i..Len(s) : ~IsIn(CharAt(s, k), chars)}
    IN  IF bad = {} THEN Len(s) ELSE NthOf(bad, 1) - 1

\* the first position from i on that holds c, 0 when there is none
FirstAt(s, i, c) ==
    LET hit == {k \in i..Len(s) : CharAt(s, k) = c}
    IN  IF hit = {} THEN 0 ELSE NthOf(hit, 1)

\* the first position from i on that holds no whitespace
SkipSpace(s, i) == ClassRunEnd(s, i, SpaceChars) + 1

RECURSIVE BracedFrom(_, _)
\* re.sub(r'\$\{([^}]+)\}', r'"$\1"', s), from position i on
BracedFrom(s, i) ==
    IF i > Len(s) THEN ""
    ELSE IF StartsWithAt(s, i, "${") /\ FirstAt(s, i + 2, "}") > i + 2
    THEN "\"$" \o SubSeq(s, i + 2, FirstAt(s, i + 2, "}") - 1) \o "\""
           \o BracedFrom(s, FirstAt(s, i + 2, "}") + 1)
    ELSE CharAt(s, i) \o BracedFrom(s, i + 1)

RECURSIVE BareFrom(_, _)
\* re.sub(r'(?<!["\'])\$([a-zA-Z_][a-zA-Z0-9_]*)', r'"$\1"', s), from i on
BareFrom(s, i) ==
    IF i > Len(s) THEN ""
    ELSE IF /\ CharIs(s, i, "$")
            /\ ~CharIs(s, i - 1, "\"")
            /\ ~CharIs(s, i - 1, "'")
            /\ CharIn(s, i + 1, IdentStartChars)
    THEN "\"" \o SubSeq(s, i, ClassRunEnd(s, i + 1, WordChars)) \o "\""
           \o BareFrom(s, ClassRunEnd(s, i + 1, WordChars) + 1)
    ELSE CharAt(s, i) \o BareFrom(s, i + 1)

ArtifactsPrefix == "\"$artifacts:"

\* the closing quote of "$artifacts:NAME" that opens at i, when a field
\* .word follows it; 0 otherwise
ArtifactsQuote(s, i) ==
    LET q == FirstAt(s, i + Len(ArtifactsPrefix), "\"")
    IN  IF /\ StartsWithAt(s, i, ArtifactsPrefix)
           /\ q > i + Len(ArtifactsPrefix)
           /\ CharIs(s, q + 1, ".")
           /\ CharIn(s, q + 2, WordChars)
        THEN q ELSE 0

\* the rewrite of one match whose closing quote is at q
ArtifactsRewritten(s, i, q) ==
    SubSeq(s, i, q - 1) \o "." \o SubSeq(s, q + 2, ClassRunEnd(s, q + 2, WordChars))
      \o "\""

RECURSIVE ArtifactsFrom(_, _)
\* re.sub(r'"\$artifacts:([^"]+)"\.(\w+)', r'"$artifacts:\1.\2"', s), from i on
ArtifactsFrom(s, i) ==
    IF i > Len(s) THEN ""
    ELSE IF ArtifactsQuote(s, i) > 0
    THEN ArtifactsRewritten(s, i, ArtifactsQuote(s, i))
           \o ArtifactsFrom(s, ClassRunEnd(s, ArtifactsQuote(s, i) + 2, WordChars) + 1)
    ELSE CharAt(s, i) \o ArtifactsFrom(s, i + 1)

\* (\s*-\s*assert:\s*)" matched from i on: the position of the quote, 0
\* when the text at i does not start that way
AssertOpening(s, i) ==
    IF /\ CharIs(s, SkipSpace(s, i), "-")
       /\ StartsWithAt(s, SkipSpace(s, SkipSpace(s, i) + 1), "assert:")
       /\ CharIs(s, SkipSpace(s, SkipSpace(s, SkipSpace(s, i) + 1) + 7), "\"")
    THEN SkipSpace(s, SkipSpace(s, SkipSpace(s, i) + 1) + 7)
    ELSE 0

\* ([^"]+)"\s*==\s*(\d+) matched after the quote at o: the quote that closes
\* and the first digit, 0 when the text does not go on that way
AssertClosing(s, o) ==
    IF o > 0 /\ FirstAt(s, o + 1, "\"") > o + 1 THEN FirstAt(s, o + 1, "\"") ELSE 0

AssertDigits(s, q) ==
    IF /\ q > 0
       /\ StartsWithAt(s, SkipSpace(s, q + 1), "==")
       /\ CharIn(s, SkipSpace(s, SkipSpace(s, q + 1) + 2), DecimalChars)
    THEN SkipSpace(s, SkipSpace(s, q + 1) + 2)
    ELSE 0

\* the rewrite of one match: \1, then the value and the expect lines
AssertRewritten(s, i, o, q, d) ==
    SubSeq(s, i, o - 1) \o "\n    value: \"" \o SubSeq(s, o + 1, q - 1)
      \o "\"\n    expect: \"==" \o SubSeq(s, d, ClassRunEnd(s, d, DecimalChars))
      \o "\""

RECURSIVE InlineAssertFrom(_, _)
\* re.sub(r'(\s*-\s*assert:\s*)"([^"]+)"\s*==\s*(\d+)',
\*        r'\1\n    value: "\2"\n    expect: "==\3"', s), from i on
InlineAssertFrom(s, i) ==
    IF i > Len(s) THEN ""
    ELSE IF AssertDigits(s, AssertClosing(s, AssertOpening(s, i))) > 0
    THEN AssertRewritten(s, i, AssertOpening(s, i),
                         AssertClosing(s, AssertOpening(s, i)),
                         AssertDigits(s, AssertClosing(s, AssertOpening(s, i))))
           \o InlineAssertFrom(s,
                  ClassRunEnd(s, AssertDigits(s, AssertClosing(s, AssertOpening(s, i))),
                              DecimalChars) + 1)
    ELSE CharAt(s, i) \o InlineAssertFrom(s, i + 1)

RECURSIVE Spaces(_)
Spaces(n) == IF n <= 0 THEN "" ELSE " " \o Spaces(n - 1)

\* the next line is taken up under a line that ends with a colon
TakesNext(lines, i) ==
    /\ i < Len(lines)
    /\ EndsWith(Strip(lines[i]), ":")
    /\ Strip(lines[i + 1]) # ""
    /\ ~StartsWith(lines[i + 1], " ")
    /\ ~StartsWith(lines[i + 1], "\t")

RECURSIVE RepairFrom(_, _, _)
\* the loop over the lines: a line taken up is appended with the indent of
\* the colon line plus two, and left empty in lines for its own iteration
RepairFrom(lines, i, fixed_lines) ==
    IF i > Len(lines) THEN fixed_lines
    ELSE IF TakesNext(lines, i)
    THEN RepairFrom([lines EXCEPT ![i + 1] = ""], i + 1,
                    fixed_lines \o
                      <<lines[i],
                        Spaces(Len(lines[i]) - Len(LStrip(lines[i])) + 2)
                          \o Strip(lines[i + 1])>>)
    ELSE RepairFrom(lines, i + 1, Append(fixed_lines, lines[i]))

RECURSIVE Join(_, _)
\* sep.join(lines)
Join(lines, sep) ==
    IF Len(lines) = 0 THEN ""
    ELSE IF Len(lines) = 1 THEN lines[1]
    ELSE lines[1] \o sep \o Join(Tail(lines), sep)

\* _normalize_yaml_variables
Normalize(yaml_content) ==
    Join(RepairFrom(
             Split(InlineAssertFrom(
                       ArtifactsFrom(BareFrom(BracedFrom(yaml_content, 1), 1), 1), 1),
                   "\n"),
             1, <<>>),
         "\n")

(***************************************************************************)
(* ScenarioParser._parse_scenario and ScenarioParser.parse_yaml            *)
(***************************************************************************)
Role(name, address, private_key, balance) ==
    [name |-> name, address |-> address, private_key |-> private_key,
     balance |-> balance]

RECURSIVE RolesFrom(_, _, _)
\* the loop over data['roles'].items(): a str is the address, a mapping is
\* the extended form, anything else is skipped
RolesFrom(items, i, roles) ==
    IF i > Len(items) THEN roles
    ELSE LET role_name == items[i][1]
             role_data == items[i][2]
         IN  IF IsStr(role_data)
             THEN RolesFrom(items, i + 1,
                      Put(roles, role_name, Role(role_name, role_data, YNull, YNull)))
             ELSE IF IsMap(role_data)
             THEN RolesFrom(items, i + 1,
                      Put(roles, role_name,
                          Role(role_name, GetOr(role_data, "address", YStr("")),
                               Get(role_data, "private_key"),
                               Get(role_data, "balance"))))
             ELSE RolesFrom(items, i + 1, roles)

\* variant: an entry that fails to parse is skipped
RECURSIVE StepsFrom_SkipBad(_, _, _, _)
StepsFrom_SkipBad(elems, order, i, steps) ==
    IF i > Len(elems) THEN [st |-> "ok", steps |-> steps]
    ELSE LET step == ParseStep(elems[i], order)
         IN  IF step.st = "ok"
             THEN StepsFrom_SkipBad(elems, order, i + 1, Append(steps, step))
             ELSE StepsFrom_SkipBad(elems, order, i + 1, steps)

\* variant: each parsed step is put in front of the earlier ones
RECURSIVE StepsFrom_Prepend(_, _, _, _)
StepsFrom_Prepend(elems, order, i, steps) ==
    IF i > Len(elems) THEN [st |-> "ok", steps |-> steps]
    ELSE LET step == ParseStep(elems[i], order)
         IN  IF step.st = "ok"
             THEN StepsFrom_Prepend(elems, order, i + 1, <<step>> \o steps)
             ELSE Raised("ValueError", "Error parsing step " \o ToString(i))

RECURSIVE StepsFrom(_, _, _, _)
\* the loop over data['steps']: each entry is parsed and appended, the first
\* entry that raises ends the parse
StepsFrom(elems, order, i, steps) ==
    IF i > Len(elems) THEN [st |-> "ok", steps |-> steps]
    ELSE LET step == ParseStep(elems[i], order)
         IN  IF step.st = "ok"
             THEN StepsFrom(elems, order, i + 1, Append(steps, step))
             ELSE Raised("ValueError", "Error parsing step " \o ToString(i))

\* Scenario.__post_init__: a None table becomes an empty one
OrEmpty(v) == IF v = YNull THEN YMap(<<>>) ELSE v

ParseScenario(data, order) ==
    IF ~Has(data, "name")
    THEN Raised("ValueError", "Scenario must have 'name' field")
    ELSE IF ~Has(data, "steps") /\ Len(data.items) = 1
    THEN Raised("ValueError", "Invalid scenario format: missing 'steps' field")
    ELSE IF Has(data, "roles") /\ ~IsMap(Get(data, "roles"))
    THEN Raised("AttributeError", "object has no attribute 'items'")
    ELSE IF Has(data, "steps") /\ ~IsSeq(Get(data, "steps"))
    THEN Raised("ValueError", "'steps' must be a list")
    ELSE
      LET roles == IF Has(data, "roles")
                   THEN RolesFrom(Get(data, "roles").items, 1, YMap(<<>>))
                   ELSE YMap(<<>>)
          parsedSteps == IF Has(data, "steps")
                         THEN StepsFrom(Get(data, "steps").elems, order, 1, <<>>)
                         ELSE [st |-> "ok", steps |-> <<>>]
      IN  IF parsedSteps.st # "ok" THEN parsedSteps
          ELSE [st |-> "ok",
                scenario |->
                  [name |-> Get(data, "name"),
                   description |-> Get(data, "description"),
                   roles |-> roles,
                   steps |-> parsedSteps.steps,
                   contracts |-> OrEmpty(GetOr(data, "contracts", YMap(<<>>))),
                   snapshots |-> YMap(<<>>)]]

\* what yaml.safe_load did with the normalized text
YamlError == [ty |-> "yaml_error"]

\* every exception of the parse leaves parse_yaml as a ValueError
AsValueError(res) ==
    IF res.st = "raised"
    THEN Raised("ValueError", "Invalid YAML format: " \o res.msg)
    ELSE res

ParseYaml(decoded, order) ==
    AsValueError(
        IF decoded = YamlError THEN Raised("YAMLError", "could not decode")
        ELSE IF ~Truthy(decoded) THEN Raised("ValueError", "YAML content is empty")
        ELSE LET data == IF IsSeq(decoded) THEN decoded.elems[1] ELSE decoded
             IN  IF IsSeq(decoded) /\ Len(decoded.elems) = 0
                 THEN Raised("ValueError", "YAML list is empty")
                 ELSE IF ~IsMap(data)
                 THEN Raised("ValueError", "YAML root must be a dictionary")
                 ELSE ParseScenario(data, order))

(***************************************************************************)
(* The node: what a cast subprocess answers                                *)
(***************************************************************************)
rpc_url == "http://localhost:8545"

\* str(x) of a decoded value
PyStr(v) ==
    CASE v.ty = "str" -> v.s
      [] v.ty = "int" -> ToString(v.n)
      [] v.ty = "null" -> "None"
      [] OTHER -> "<" \o v.ty \o ">"

\* the dict key a value is used as; a key that is no str is written <type>
KeyOf(v) == IF IsStr(v) THEN v.s ELSE "<" \o v.ty \o ">"

\* x in d for a value used as key
In(v, m) == Has(m, KeyOf(v))

AllStr(cmd) == \A i \in 1..Len(cmd) : IsStr(cmd[i])

\* one subprocess.run of the cast tool by a handler
NodeCall(cmd) == [cmd |-> [i \in 1..Len(cmd) |-> PyStr(cmd[i])]]

\* what a handler did: returned or raised, the scenario it leaves, and the
\* node calls it issued
Handled(out, scn, calls) == [out |-> out, scn |-> scn, calls |-> calls]

\* subprocess.run raises TypeError on an argument that is no str, before
\* any process is started
BadCommand(scn) ==
    Handled(Raised("TypeError", "expected str, bytes or os.PathLike object"),
            scn, <<>>)

\* the call did not complete (timeout, tool missing): subprocess.run raises
NodeRaised(cmd, scn) ==
    Handled(Raised("TimeoutExpired", "Command timed out"), scn, <<NodeCall(cmd)>>)

\* data.get('args', []) as iterated by `for arg in args`
ArgsOf(data) ==
    LET args == GetOr(data, "args", YSeq(<<>>))
    IN  CASE args.ty = "seq" -> [ok |-> TRUE, args |-> args.elems]
          [] args.ty = "map" ->
               [ok |-> TRUE,
                args |-> [i \in 1..Len(args.items) |-> YStr(args.items[i][1])]]
          [] args.ty = "str" ->
               [ok |-> TRUE,
                args |-> [i \in 1..Len(args.s) |-> YStr(CharAt(args.s, i))]]
          [] OTHER -> [ok |-> FALSE, args |-> <<>>]

\* [fn] + [str(arg) for arg in args] when fn is truthy
FnAndArgs(data) ==
    LET fn == GetOr(data, "fn", YStr(""))
        a == ArgsOf(data)
    IN  IF ~Truthy(fn) THEN [ok |-> TRUE, part |-> <<>>]
        ELSE IF ~a.ok THEN [ok |-> FALSE, part |-> <<>>]
        ELSE [ok |-> TRUE,
              part |-> <<fn>> \o [i \in 1..Len(a.args) |-> YStr(PyStr(a.args[i]))]]

Cast(sub) == <<YStr("cast"), YStr(sub), YStr("--rpc-url"), YStr(rpc_url)>>
CastRpc(method, params) ==
    <<YStr("cast"), YStr("rpc"), YStr(method)>> \o params
        \o <<YStr("--rpc-url"), YStr(rpc_url)>>

\* from_addr: data.get('from'), replaced by the role's address when it
\* names a role
FromAddr(data, scn) ==
    LET f == Get(data, "from")
    IN  IF In(f, scn.roles) THEN Get(scn.roles, KeyOf(f)).address ELSE f

\* to_addr: data.get('to'), replaced by the contract's address when it
\* names a contract
ToAddr(data, scn) ==
    LET t == Get(data, "to")
    IN  IF In(t, scn.contracts) THEN Get(scn.contracts, KeyOf(t)) ELSE t

OptFrom(addr) == IF Truthy(addr) THEN <<YStr("--from"), addr>> ELSE <<>>
OptArg(v) == IF Truthy(v) THEN <<v>> ELSE <<>>

(***************************************************************************)
(* ScenarioExecutor: the step handlers.  ans is the node's answer to the   *)
(* handler's call: ans.rc is "ok" (return code 0), "fail" (non-zero) or    *)
(* "exc" (subprocess.run raised), ans.stdout its output, ans.receipt the   *)
(* answer to the `cast receipt` call of a deploy.                          *)
(***************************************************************************)
\* a handler's single node call: RuntimeError on a non-zero return code
OneCall(cmd, ans, scn, what) ==
    IF ~AllStr(cmd) THEN BadCommand(scn)
    ELSE IF ans.rc = "exc" THEN NodeRaised(cmd, scn)
    ELSE IF ans.rc = "fail"
    THEN Handled(Raised("RuntimeError", what \o " failed: node error"), scn,
                 <<NodeCall(cmd)>>)
    ELSE Handled(Returned, scn, <<NodeCall(cmd)>>)

ExecuteWait(step, scn, ans) ==
    OneCall(CastRpc("anvil_mine",
                    <<YStr(PyStr(GetOr(step.data, "blocks", YInt(1))))>>),
            ans, scn, "Wait")

ExecuteMine(step, scn, ans) ==
    OneCall(CastRpc("anvil_mine",
                    <<YStr(PyStr(GetOr(step.data, "blocks", YInt(1))))>>),
            ans, scn, "Mine")

ExecuteTimeTravel(step, scn, ans) ==
    OneCall(CastRpc("anvil_increaseTime",
                    <<YStr(PyStr(GetOr(step.data, "seconds", YInt(0))))>>),
            ans, scn, "Time travel")

ExecuteSetBalance(step, scn, ans) ==
    OneCall(CastRpc("anvil_setBalance",
                    <<Get(step.data, "address"), Get(step.data, "balance")>>),
            ans, scn, "Set balance")

ExecuteSetStorage(step, scn, ans) ==
    OneCall(CastRpc("anvil_setStorageAt",
                    <<Get(step.data, "address"), Get(step.data, "slot"),
                      Get(step.data, "value")>>),
            ans, scn, "Set storage")

\* variant: a label is kept as a contract name
ExecuteLabel_Binds(step, scn, ans) ==
    Handled(Returned,
            [scn EXCEPT !.contracts =
                Put(@, KeyOf(Get(step.data, "name")), Get(step.data, "address"))],
            <<>>)

ExecuteLabel(step, scn, ans) == Handled(Returned, scn, <<>>)

RECURSIVE StripChar(_, _)
\* s.strip(c) for one character
StripChar(s, c) ==
    IF s # "" /\ Head(s) = c THEN StripChar(Tail(s), c)
    ELSE IF s # "" /\ CharAt(s, Len(s)) = c
    THEN StripChar(SubSeq(s, 1, Len(s) - 1), c)
    ELSE s

\* snapshot_name: the step's name, or snapshot_<number of snapshots>
SnapshotName(step, scn) ==
    GetOr(step.data, "name",
          YStr("snapshot_" \o ToString(Len(scn.snapshots.items))))

ExecuteSnapshot(step, scn, ans) ==
    LET called == OneCall(CastRpc("evm_snapshot", <<>>), ans, scn,
                          "Snapshot creation")
        snapshot_id == StripChar(Strip(ans.stdout), "\"")
    IN  IF called.out # Returned THEN called
        ELSE Handled(Returned,
                     [scn EXCEPT !.snapshots =
                         Put(@, KeyOf(SnapshotName(step, scn)), YStr(snapshot_id))],
                     called.calls)

\* variant: a revert uses its checkpoint up
ExecuteRevert_Consume(step, scn, ans) ==
    LET snapshot_name == Get(step.data, "name")
    IN  IF ~In(snapshot_name, scn.snapshots)
        THEN Handled(Raised("ValueError",
                            "Snapshot not found: " \o PyStr(snapshot_name)),
                     scn, <<>>)
        ELSE LET called == OneCall(CastRpc("evm_revert",
                                       <<Get(scn.snapshots, KeyOf(snapshot_name))>>),
                                   ans, scn, "Revert")
             IN  IF called.out # Returned THEN called
                 ELSE Handled(Returned,
                              [scn EXCEPT !.snapshots =
                                  Without(@, KeyOf(snapshot_name))],
                              called.calls)

\* variant: the lookup of the snapshot name comes after the node call
ExecuteRevert_CallFirst(step, scn, ans) ==
    LET snapshot_name == Get(step.data, "name")
        called == OneCall(CastRpc("evm_revert", <<snapshot_name>>), ans, scn,
                          "Revert")
    IN  IF called.out = Returned /\ ~In(snapshot_name, scn.snapshots)
        THEN Handled(Raised("ValueError",
                            "Snapshot not found: " \o PyStr(snapshot_name)),
                     scn, called.calls)
        ELSE called

ExecuteRevert(step, scn, ans) ==
    LET snapshot_name == Get(step.data, "name")
    IN  IF ~In(snapshot_name, scn.snapshots)
        THEN Handled(Raised("ValueError",
                            "Snapshot not found: " \o PyStr(snapshot_name)),
                     scn, <<>>)
        ELSE OneCall(CastRpc("evm_revert",
                             <<Get(scn.snapshots, KeyOf(snapshot_name))>>),
                     ans, scn, "Revert")

\* value: a $-prefixed str is looked up in contracts, then in roles
AssertValue(data, scn) ==
    LET value == Get(data, "value")
    IN  IF IsStr(value) /\ StartsWith(value.s, "$")
        THEN IF Has(scn.contracts, value.s) THEN Get(scn.contracts, value.s)
             ELSE IF Has(scn.roles, value.s) THEN Get(scn.roles, value.s).address
             ELSE value
        ELSE value

ExecuteAssert(step, scn, ans) ==
    Handled(CheckExpectationValue(PyStr(AssertValue(step.data, scn)),
                                  Get(step.data, "expect")),
            scn, <<>>)

ExecuteCall(step, scn, ans) ==
    LET fa == FnAndArgs(step.data)
        cmd == Cast("call") \o OptArg(ToAddr(step.data, scn)) \o fa.part
        called == OneCall(cmd, ans, scn, "Call")
    IN  IF ~fa.ok
        THEN Handled(Raised("TypeError", "object is not iterable"), scn, <<>>)
        ELSE IF called.out # Returned THEN called
        ELSE IF Has(step.data, "expect")
        THEN Handled(CheckExpectationValue(Strip(ans.stdout),
                                           Get(step.data, "expect")),
                     scn, called.calls)
        ELSE called

\* s.split(): the maximal runs of characters that are no whitespace
SplitWs(s) ==
    LET starts == {i \in 1..Len(s) :
                     ~IsSpace(CharAt(s, i)) /\ (i = 1 \/ IsSpace(CharAt(s, i - 1)))}
        EndOf(i) == CHOOSE j \in i..Len(s) :
                      /\ \A k \in i..j : ~IsSpace(CharAt(s, k))
                      /\ (j = Len(s) \/ IsSpace(CharAt(s, j + 1)))
    IN  [k \in 1..Cardinality(starts) |->
            SubSeq(s, NthOf(starts, k), EndOf(NthOf(starts, k)))]

\* the first part of a line that starts with 0x and has n characters, or ""
HexPartOf(line, n) ==
    LET parts == SplitWs(line)
        hit == {i \in 1..Len(parts) : StartsWith(parts[i], "0x") /\ Len(parts[i]) = n}
    IN  IF hit = {} THEN ""
        ELSE parts[CHOOSE i \in hit : \A j \in hit : i <= j]

RECURSIVE FirstHexPart(_, _, _, _)
\* the loop over the lines of an output: the first line that passes the
\* receipt filter (when asked) and holds an n-character 0x part gives it
FirstHexPart(lines, i, n, receipt) ==
    IF i > Len(lines) THEN ""
    ELSE LET line == Strip(lines[i])
             wanted == ~receipt \/ IsIn("contractAddress", Lower(line))
                                \/ IsIn("contract address", Lower(line))
         IN  IF wanted /\ IsIn("0x", line) /\ HexPartOf(line, n) # ""
             THEN HexPartOf(line, n)
             ELSE FirstHexPart(lines, i + 1, n, receipt)

ZeroAddress == "0x0000000000000000000000000000000000000000"

ExecuteDeploy(step, scn, ans) ==
    LET data == step.data
        bytecode == GetOr(data, "bytecode", YStr(""))
        a == ArgsOf(data)
        cmd == Cast("create") \o OptFrom(FromAddr(data, scn)) \o OptArg(bytecode)
                 \o [i \in 1..Len(a.args) |-> YStr(PyStr(a.args[i]))]
        called == OneCall(cmd, ans, scn, "Deploy")
        output == Strip(ans.stdout)
        inOutput == FirstHexPart(Split(output, "\n"), 1, 42, FALSE)
        tx_hash == FirstHexPart(Split(output, "\n"), 1, 66, FALSE)
        receipt_cmd == <<YStr("cast"), YStr("receipt"), YStr(tx_hash),
                         YStr("--rpc-url"), YStr(rpc_url)>>
        asksReceipt == inOutput = "" /\ tx_hash # ""
        inReceipt == IF asksReceipt /\ ans.receipt.rc = "ok"
                     THEN FirstHexPart(Split(Strip(ans.receipt.stdout), "\n"),
                                       1, 42, TRUE)
                     ELSE ""
        contract_address == IF inOutput # "" THEN inOutput
                            ELSE IF inReceipt # "" THEN inReceipt
                            ELSE ZeroAddress
    IN  IF ~IsStr(bytecode)
        THEN Handled(Raised("TypeError", "object is not subscriptable"), scn, <<>>)
        ELSE IF ~a.ok
        THEN Handled(Raised("TypeError", "object is not iterable"), scn, <<>>)
        ELSE IF called.out # Returned THEN called
        ELSE Handled(Returned,
                     [scn EXCEPT !.contracts =
                         Put(@, KeyOf(Get(data, "contract")), YStr(contract_address))],
                     called.calls
                       \o (IF asksReceipt THEN <<NodeCall(receipt_cmd)>> ELSE <<>>))

\* the step types _execute_send hands a step without from, to and fn on to
SendRedirects == {"deploy", "call", "assert", "wait", "mine", "snapshot", "revert"}

ExecuteSend(step, scn, ans) ==
    LET data == step.data
        value == Get(data, "value")
        fa == FnAndArgs(data)
        cmd == Cast("send") \o OptFrom(FromAddr(data, scn))
                 \o OptArg(ToAddr(data, scn)) \o fa.part
    IN  IF ~Has(data, "from") /\ ~Has(data, "to") /\ ~Has(data, "fn")
        THEN IF Has(data, "value") /\ IsStr(value) /\ Lower(value.s) \in SendRedirects
             THEN CASE Lower(value.s) = "deploy" -> ExecuteDeploy(step, scn, ans)
                    [] Lower(value.s) = "call" -> ExecuteCall(step, scn, ans)
                    [] Lower(value.s) = "assert" -> ExecuteAssert(step, scn, ans)
                    [] Lower(value.s) = "snapshot" -> ExecuteSnapshot(step, scn, ans)
                    [] Lower(value.s) = "revert" -> ExecuteRevert(step, scn, ans)
                    \* _execute_wait and _execute_mine take the step alone and
                    \* are called here with (step, scenario)
                    [] OTHER ->
                         Handled(Raised("TypeError",
                                        "takes 2 positional arguments but 3 were given"),
                                 scn, <<>>)
             ELSE Handled(Raised("ValueError", "Insufficient data for SEND step"),
                          scn, <<>>)
        ELSE IF ~fa.ok
        THEN Handled(Raised("TypeError", "object is not iterable"), scn, <<>>)
        ELSE OneCall(cmd, ans, scn, "Send transaction")

\* the types _execute_action recognises in a `value` field
ActionValues ==
    {"deploy", "send", "call", "assert", "wait", "mine", "snapshot", "revert"}

\* action_type
ActionType(data) ==
    LET value == Get(data, "value")
    IN  IF ~Has(data, "type") /\ Has(data, "value") /\ IsStr(value)
        THEN IF Lower(value.s) \in ActionValues THEN YStr(Lower(value.s))
             ELSE YStr("send")
        ELSE GetOr(data, "type", YStr("send"))

ExecuteAction(step, scn, ans) ==
    LET action_type == ActionType(step.data)
    IN  CASE action_type = YStr("send") ->
               ExecuteSend([step EXCEPT !.type = "send"], scn, ans)
          [] action_type = YStr("call") ->
               ExecuteCall([step EXCEPT !.type = "call"], scn, ans)
          [] action_type = YStr("deploy") ->
               ExecuteDeploy([step EXCEPT !.type = "deploy"], scn, ans)
          [] action_type = YStr("assert") ->
               ExecuteAssert([step EXCEPT !.type = "assert"], scn, ans)
          [] OTHER ->
               ExecuteSend([step EXCEPT !.type = "send"], scn, ans)

(***************************************************************************)
(* ScenarioExecutor: account pool and role preparation                     *)
(***************************************************************************)
test_accounts ==
    <<"0xf39Fd6e51aad88F6F4ce6aB8827279cffFb92266",
      "0x70997970C51812dc3A010C7d01b50e0d17dc79C8",
      "0x3C44CdDdB6a900fa2b585dd299e03d12FA4293BC",
      "0x90F79bf6EB2c4f870365E785982E1f101E93b906",
      "0x15d34AAf54267DB7D7c367839AAf71A00a2C6A65",
      "0x9965507D1a55bcC2695C58ba16FB37d819B0A4dc",
      "0x976EA74026E726554dB657fA54763abd0C3a0aa9",
      "0x14dC79964da2C08b23698B3D3cc7Ca32193d9955",
      "0x23618e81E3f5cdF7f54C3d65f7FBc0aBf5B21E8f",
      "0xa0Ee7A142d267C1f36714E4a8F75612F20a79720">>

RECURSIVE PutAccounts(_, _, _)
PutAccounts(accts, addresses, i) ==
    IF i > Len(addresses) THEN accts
    ELSE PutAccounts(Put(accts, "$acc" \o ToString(i - 1), YStr(addresses[i])),
                     addresses, i + 1)

\* _create_test_accounts: $acc0..$acc9 are bound to the fixed addresses
CreateTestAccounts(accts) == PutAccounts(accts, test_accounts, 1)

RECURSIVE AccountsFromLines(_, _, _)
\* the loop of _load_anvil_accounts over the lines of `cast wallet list`
AccountsFromLines(accts, lines, i) ==
    IF i > Len(lines) THEN accts
    ELSE IF IsIn("0x", lines[i])
    THEN AccountsFromLines(
             Put(accts, "$acc" \o ToString(i - 1), YStr(SplitWs(lines[i])[1])),
             lines, i + 1)
    ELSE AccountsFromLines(accts, lines, i + 1)

\* _load_anvil_accounts; wallet is the answer of `cast wallet list`
LoadAnvilAccounts(accts, wallet) ==
    IF wallet.rc = "ok" /\ Strip(wallet.stdout) # ""
    THEN AccountsFromLines(accts, Split(Strip(wallet.stdout), "\n"), 1)
    ELSE CreateTestAccounts(accts)

\* variant: the pool is left as the node's answers made it
EnsureRpc_NoFallback(accts, rpc, anvil, wallet) ==
    IF rpc # "ok" /\ anvil = "started" THEN LoadAnvilAccounts(accts, wallet)
    ELSE accts

\* _ensure_rpc_connection; rpc is the outcome of `cast block-number`, anvil
\* whether start_anvil got a running process, wallet as above
EnsureRpc(accts, rpc, anvil, wallet) ==
    LET loaded == IF rpc # "ok" /\ anvil = "started"
                  THEN LoadAnvilAccounts(accts, wallet)
                  ELSE accts
    IN  IF ~Truthy(loaded) THEN CreateTestAccounts(loaded) ELSE loaded

RECURSIVE PrepareRolesFrom_Strict(_, _, _)
\* variant: an account variable that is not in the pool is an error
PrepareRolesFrom_Strict(roles, accts, i) ==
    IF i > Len(roles.items) THEN [out |-> Returned, roles |-> roles]
    ELSE LET role_name == roles.items[i][1]
             role == roles.items[i][2]
         IN  IF ~IsStr(role.address)
             THEN [out |-> Raised("AttributeError",
                                  "object has no attribute 'startswith'"),
                   roles |-> roles]
             ELSE IF StartsWith(role.address.s, "$") /\ ~Has(accts, role.address.s)
             THEN [out |-> Raised("KeyError", role.address.s), roles |-> roles]
             ELSE IF StartsWith(role.address.s, "$")
             THEN PrepareRolesFrom_Strict(
                      Put(roles, role_name,
                          [role EXCEPT !.address = Get(accts, role.address.s)]),
                      accts, i + 1)
             ELSE PrepareRolesFrom_Strict(roles, accts, i + 1)

RECURSIVE PrepareRolesFrom(_, _, _)
\* the loop of _prepare_roles; an address that is no str has no startswith
PrepareRolesFrom(roles, accts, i) ==
    IF i > Len(roles.items) THEN [out |-> Returned, roles |-> roles]
    ELSE LET role_name == roles.items[i][1]
             role == roles.items[i][2]
         IN  IF ~IsStr(role.address)
             THEN [out |-> Raised("AttributeError",
                                  "object has no attribute 'startswith'"),
                   roles |-> roles]
             ELSE IF StartsWith(role.address.s, "$") /\ Has(accts, role.address.s)
             THEN PrepareRolesFrom(
                      Put(roles, role_name,
                          [role EXCEPT !.address = Get(accts, role.address.s)]),
                      accts, i + 1)
             ELSE PrepareRolesFrom(roles, accts, i + 1)

PrepareRoles(roles, accts) == PrepareRolesFrom(roles, accts, 1)

(***************************************************************************)
(* ScenarioExecutor.execute_scenario: the results it returns               *)
(***************************************************************************)
\* _collect_artifacts
CollectArtifacts(scn) ==
    [scenario_name |-> scn.name,
     roles |-> YMap([i \in 1..Len(scn.roles.items) |->
                       <<scn.roles.items[i][1], scn.roles.items[i][2].address>>]),
     contracts |-> scn.contracts,
     snapshots |-> scn.snapshots]

ExecutionResult(success, scn, executed, artifacts, error) ==
    [success |-> success, scenario_name |-> scn.name,
     steps_executed |-> executed, total_steps |-> Len(scn.steps),
     artifacts |-> artifacts, error |-> error]

\* the return of the try block
Succeeded(scn, executed) ==
    ExecutionResult(TRUE, scn, executed, CollectArtifacts(scn), YNull)

\* variant: the step that raised is counted as executed
FailedWith_CountFailing(scn, executed, exc) ==
    ExecutionResult(FALSE, scn, executed + 1, YMap(<<>>), YStr(exc.msg))

\* the return of the except block: error=str(e), no artifacts
FailedWith(scn, executed, exc) ==
    ExecutionResult(FALSE, scn, executed, YMap(<<>>), YStr(exc.msg))

(***************************************************************************)
(* Inputs of the step-parsing specification                                *)
(***************************************************************************)
AliasTokens == DOMAIN step_aliases

\* tokens that are neither a kind nor an alias key
OtherTokens ==
    {"SEND", "Deploy", "Check", "send_tx", "do_call", "deploy_and_call",
     "call_and_send", "assert_eq", "my_action", "set", "se", "snap", "time",
     "travel", "balance", "storage", "min", "transfer", "xyz", "on_revert",
     "type", "value"}

Tokens == supported_step_types \cup AliasTokens \cup OtherTokens

Bodies ==
    {YMap(<<>>),
     YMap(<<<<"from", YStr("deployer")>>, <<"description", YStr("d")>>>>),
     YStr("wait"), YNull}

\* the shapes of a step entry built around a token and a body
EntriesOf(tok, body) ==
    {YMap(<<<<tok, body>>>>),
     YMap(<<<<"type", YStr(tok)>>, <<"contract", YStr("Counter")>>>>),
     YMap(<<<<"contract", YStr("Counter")>>, <<"type", YStr(tok)>>>>),
     YMap(<<<<"note_", YStr("n")>>, <<tok, body>>>>),
     YMap(<<<<tok, body>>, <<"extra_", YInt(1)>>>>)}

MalformedEntries ==
    {YNull, YInt(7), YStr(""), YStr("s"), YStr("send"), YSeq(<<>>),
     YSeq(<<YStr("send")>>), YMap(<<>>), YMap(<<<<"type", YInt(3)>>>>)}

StepEntries ==
    UNION {EntriesOf(tok, body) : tok \in Tokens, body \in Bodies}
      \cup MalformedEntries

(***************************************************************************)
(* Specification of _parse_step followed by the dispatch of its result     *)
(***************************************************************************)
IdleStep ==
    /\ entry = YNull
    /\ iterOrder = <<>>
    /\ pstep = Pending
    /\ handler = "pending"

IdleCheck ==
    /\ arg_actual = ""
    /\ arg_expected = ""
    /\ given = [op |-> "none"]
    /\ outcome = Pending

IdleRun ==
    /\ yaml_doc = YNull
    /\ parsed = Pending
    /\ scenario = YNull
    /\ accounts = YMap(<<>>)
    /\ pc = "idle"
    /\ steps_executed = 0
    /\ result = YNull
    /\ nodeCalls = <<>>
    /\ dispatched = <<>>

IdleNorm ==
    /\ raw_text = ""
    /\ first_pass = Pending
    /\ second_pass = Pending

Threads == {"t1", "t2"}

IdleAnvil ==
    /\ lock = "free"
    /\ process = "none"
    /\ call = [t \in Threads |-> [op |-> "none", pc |-> "idle", ret |-> "none"]]
    /\ polls = 0

IdleSave ==
    /\ to_save = YNull
    /\ written = Pending
    /\ reloaded = Pending

InitStep ==
    /\ entry \in StepEntries
    /\ iterOrder = <<>>
    /\ pstep = Pending
    /\ handler = "pending"
    /\ IdleCheck
    /\ IdleRun
    /\ IdleNorm
    /\ IdleAnvil
    /\ IdleSave

ParseStepCall ==
    /\ pstep = Pending
    /\ \E order \in EntryOrders(entry) :
          /\ iterOrder' = order
          /\ pstep' = ParseStep(entry, order)
    /\ UNCHANGED <<entry, handler, checkVars, runVars, normVars, anvilVars, saveVars>>

DispatchStep ==
    /\ pstep.st = "ok"
    /\ handler = "pending"
    /\ handler' = HandlerOf(pstep.type)
    /\ UNCHANGED <<entry, iterOrder, pstep, checkVars, runVars, normVars, anvilVars, saveVars>>

NextStep == ParseStepCall \/ DispatchStep

SpecStep == InitStep /\ [][NextStep]_vars

(***************************************************************************)
(* Specification of _check_expectation on written-out numbers              *)
(***************************************************************************)
MaxNum == 11

CheckNums == (0..MaxNum) \cup {-1, 15, 16, 17, 99, 100, 101, 255, 256}

RECURSIVE HexDigits(_)
HexDigits(n) ==
    IF n < 16 THEN CharAt(DigitChars, n + 1)
    ELSE HexDigits(n \div 16) \o CharAt(DigitChars, (n % 16) + 1)

\* a number as the node prints it: decimal, or 0x-prefixed hex
Written(n, fmt) ==
    IF fmt = "hex" /\ n >= 0 THEN "0x" \o HexDigits(n) ELSE ToString(n)

Operators == {"==", "!=", ">", ">=", "<", "<="}

\* an expectation as a scenario author writes it
WrittenExpectation(op, n, fmt) ==
    IF fmt = "spaced" THEN op \o " " \o ToString(n)
    ELSE op \o Written(n, fmt)

NumericCases ==
    {[actual |-> Written(a, af), expected |-> WrittenExpectation(op, n, ef),
      given |-> [op |-> op, a |-> a, n |-> n, af |-> af, ef |-> ef]] :
        a \in CheckNums, n \in CheckNums, af \in {"dec", "hex"},
        ef \in {"dec", "spaced", "hex"}, op \in Operators}

OtherCases ==
    {[actual |-> a, expected |-> e, given |-> [op |-> "other"]] :
        a \in {"abc", "", "0X64", "0x", "1_0", " 7", "true"},
        e \in {"contains abc", "contains", "exists", "", "=1", "==abc",
               "== abc", "!=abc", ">abc", "<", "> 0x", "7"}}

InitCheck ==
    /\ \E c \in NumericCases \cup OtherCases :
          /\ arg_actual = c.actual
          /\ arg_expected = c.expected
          /\ given = c.given
    /\ outcome = Pending
    /\ IdleStep
    /\ IdleRun
    /\ IdleNorm
    /\ IdleAnvil
    /\ IdleSave

CheckCall ==
    /\ outcome = Pending
    /\ outcome' = CheckExpectation(arg_actual, arg_expected)
    /\ UNCHANGED <<arg_actual, arg_expected, given, stepVars, runVars, normVars, anvilVars, saveVars>>

NextCheck == CheckCall

SpecCheck == InitCheck /\ [][NextCheck]_vars

(***************************************************************************)
(* Specification of _normalize_yaml_variables, applied to a text and then  *)
(* to its own result                                                       *)
(***************************************************************************)
MaxFrags == 3

\* pieces of scenario text that the rewrites look for, and their remains
Fragments ==
    {"${a}", "${", "}", "$a", "b", "\"", "\"$artifacts:T\"", ".a", "k:", "\n",
     " ", "- assert: \"$a\"", " == 5"}

RECURSIVE Texts(_)
\* the texts written with at most n fragments
Texts(n) ==
    IF n = 0 THEN {""}
    ELSE Texts(n - 1) \cup {t \o f : t \in Texts(n - 1), f \in Fragments}

NormalizedTo(text) == [st |-> "ok", text |-> text]

InitNorm ==
    /\ raw_text \in Texts(MaxFrags)
    /\ first_pass = Pending
    /\ second_pass = Pending
    /\ IdleStep
    /\ IdleCheck
    /\ IdleRun
    /\ IdleAnvil
    /\ IdleSave

NormalizeCall ==
    /\ first_pass = Pending
    /\ first_pass' = NormalizedTo(Normalize(raw_text))
    /\ UNCHANGED <<raw_text, second_pass, stepVars, checkVars, runVars, anvilVars, saveVars>>

NormalizeAgain ==
    /\ first_pass # Pending
    /\ second_pass = Pending
    /\ second_pass' = NormalizedTo(Normalize(first_pass.text))
    /\ UNCHANGED <<raw_text, first_pass, stepVars, checkVars, runVars, anvilVars, saveVars>>

NextNorm == NormalizeCall \/ NormalizeAgain

SpecNorm == InitNorm /\ [][NextNorm]_vars

(***************************************************************************)
(* Inputs of the run: decoded documents and answers of the node            *)
(***************************************************************************)
MaxSteps == 2
MaxSeededSteps == 1

UserAddress == "0x70997970C51812dc3A010C7d01b50e0d17dc79C8"
DeployedAddress == "0x5FbDB2315678afecb367f032d93F642f64180aa3"
SeededAddress == "0x00000000000000000000000000000000000000c1"
DeployTxHash ==
    "0x9c0f5d1b2a3e4f60718293a4b5c6d7e8f9011223344556677889900aabbccdde"

StepEntry(tok, body) == YMap(<<<<tok, body>>>>)

RunEntries ==
    {StepEntry("send", YMap(<<<<"from", YStr("deployer")>>, <<"to", YStr("Counter")>>,
                              <<"fn", YStr("increment()")>>>>)),
     StepEntry("call", YMap(<<<<"to", YStr("Counter")>>, <<"fn", YStr("number()")>>,
                              <<"expect", YStr("==1")>>>>)),
     StepEntry("query", YMap(<<<<"to", YStr("Counter")>>, <<"fn", YStr("number()")>>,
                               <<"expect", YStr(">=1")>>>>)),
     StepEntry("assert", YMap(<<<<"value", YStr("5")>>, <<"expect", YStr(">3")>>>>)),
     StepEntry("check", YMap(<<<<"value", YStr("0")>>, <<"expect", YStr("==1")>>>>)),
     StepEntry("assert", YMap(<<<<"value", YStr("3")>>, <<"expect", YStr(">=5")>>>>)),
     StepEntry("snapshot", YMap(<<<<"name", YStr("s1")>>>>)),
     StepEntry("snapshot", YMap(<<>>)),
     StepEntry("revert", YMap(<<<<"name", YStr("s1")>>>>)),
     StepEntry("revert", YMap(<<<<"name", YStr("nope")>>>>)),
     StepEntry("deploy", YMap(<<<<"contract", YStr("Counter")>>,
                                <<"from", YStr("deployer")>>,
                                <<"bytecode", YStr("0x6001")>>,
                                <<"args", YSeq(<<YInt(5)>>)>>>>)),
     StepEntry("wait", YMap(<<<<"blocks", YInt(2)>>>>)),
     StepEntry("mine", YMap(<<>>)),
     StepEntry("time_travel", YMap(<<<<"seconds", YInt(60)>>>>)),
     StepEntry("set_balance", YMap(<<<<"address", YStr(UserAddress)>>,
                                     <<"balance", YStr("0x10")>>>>)),
     StepEntry("set_storage", YMap(<<<<"address", YStr(SeededAddress)>>,
                                     <<"slot", YStr("0x0")>>,
                                     <<"value", YStr("0x1")>>>>)),
     StepEntry("label", YMap(<<<<"address", YStr(UserAddress)>>,
                               <<"name", YStr("user")>>>>)),
     StepEntry("xyz", YStr("snapshot"))}

\* the sequences of at most n run entries
RECURSIVE StepLists(_)
StepLists(n) ==
    IF n = 0 THEN {<<>>}
    ELSE StepLists(n - 1)
           \cup {Append(l, e) : l \in {x \in StepLists(n - 1) : Len(x) = n - 1},
                                e \in RunEntries}

RunRoles ==
    YMap(<<<<"deployer", YStr("$acc0")>>,
           <<"user", YMap(<<<<"address", YStr(UserAddress)>>,
                            <<"private_key", YStr("0xkey")>>>>)>>>>)

\* a document with roles, and one that also brings a contracts table
Document(elems) ==
    YMap(<<<<"name", YStr("demo")>>, <<"roles", RunRoles>>,
           <<"steps", YSeq(elems)>>>>)

SeededDocument(elems) ==
    YMap(<<<<"name", YStr("demo")>>, <<"roles", RunRoles>>,
           <<"contracts", YMap(<<<<"Counter", YStr(SeededAddress)>>>>)>>,
           <<"steps", YSeq(elems)>>>>)

GoodEntry == StepEntry("mine", YMap(<<>>))

\* documents outside the well-formed shape
OddDocuments ==
    {YamlError, YNull, YStr(""), YInt(0), YSeq(<<>>), YMap(<<>>),
     YStr("demo"), YInt(3), YSeq(<<YStr("demo")>>), YSeq(<<YNull>>),
     YSeq(<<Document(<<GoodEntry>>)>>),
     YSeq(<<YMap(<<<<"steps", YSeq(<<GoodEntry>>)>>>>), Document(<<>>)>>),
     YMap(<<<<"steps", YSeq(<<GoodEntry>>)>>>>),
     YMap(<<<<"description", YStr("d")>>, <<"steps", YSeq(<<>>)>>>>),
     YMap(<<<<"name", YStr("demo")>>>>),
     YMap(<<<<"name", YStr("demo")>>, <<"description", YStr("d")>>>>),
     YMap(<<<<"name", YStr("demo")>>, <<"steps", YNull>>>>),
     YMap(<<<<"name", YStr("demo")>>, <<"steps", YStr("send")>>>>),
     YMap(<<<<"name", YStr("demo")>>,
            <<"steps", YMap(<<<<"send", YMap(<<>>)>>>>)>>>>),
     YMap(<<<<"name", YStr("demo")>>, <<"roles", YSeq(<<YStr("deployer")>>)>>,
            <<"steps", YSeq(<<GoodEntry>>)>>>>),
     YMap(<<<<"name", YStr("demo")>>,
            <<"roles", YMap(<<<<"deployer", YMap(<<<<"address", YInt(5)>>>>)>>>>)>>,
            <<"steps", YSeq(<<GoodEntry>>)>>>>),
     Document(<<YStr("send")>>), Document(<<YNull>>), Document(<<YMap(<<>>)>>),
     Document(<<GoodEntry, YMap(<<>>)>>), Document(<<YInt(1), GoodEntry>>),
     Document(<<GoodEntry, YSeq(<<YStr("send")>>)>>)}

SnapshotS1 == StepEntry("snapshot", YMap(<<<<"name", YStr("s1")>>>>))
RevertS1 == StepEntry("revert", YMap(<<<<"name", YStr("s1")>>>>))
DeployCounter ==
    StepEntry("deploy", YMap(<<<<"contract", YStr("Counter")>>,
                               <<"from", YStr("deployer")>>,
                               <<"bytecode", YStr("0x6001")>>,
                               <<"args", YSeq(<<YInt(5)>>)>>>>))

\* scenarios of more steps: a checkpoint, a deployment after it, and two
\* returns to the checkpoint
LongerDocuments ==
    {Document(<<SnapshotS1, DeployCounter, RevertS1, RevertS1>>)}

\* steps whose sender is written as an account variable
SendFromPool ==
    StepEntry("send", YMap(<<<<"from", YStr("$acc0")>>, <<"to", YStr(UserAddress)>>,
                             <<"fn", YStr("ping()")>>>>))
DeployFromPool ==
    StepEntry("deploy", YMap(<<<<"contract", YStr("Counter")>>,
                               <<"from", YStr("$acc1")>>,
                               <<"bytecode", YStr("0x6001")>>>>))

PoolDocuments == {Document(<<SendFromPool>>), Document(<<DeployFromPool>>)}

\* assertions about a bound contract or role, written as a $-reference
AssertIs(ref, address) ==
    StepEntry("assert", YMap(<<<<"value", YStr(ref)>>,
                               <<"expect", YStr("==" \o address)>>>>))

ReferenceDocuments ==
    {SeededDocument(<<AssertIs("$Counter", SeededAddress)>>),
     Document(<<DeployCounter, AssertIs("$Counter", DeployedAddress)>>),
     Document(<<AssertIs("$user", UserAddress)>>),
     Document(<<AssertIs("$deployer", "0x0")>>)}

\* steps under a token that is no kind: the body names the kind in its
\* value (a bare word) or in a type field
NamedByValue(kind) == StepEntry("xyz", YStr(kind))
NamedByType(kind) ==
    StepEntry("xyz", YMap(<<<<"type", YStr(kind)>>, <<"name", YStr("s1")>>,
                            <<"blocks", YInt(2)>>>>))

RedirectDocuments ==
    {Document(<<SnapshotS1, NamedByValue(k)>>) : k \in ActionValues \cup {"foo"}}
      \cup {Document(<<SnapshotS1, NamedByType(k)>>) :
               k \in ActionValues \cup {"foo"}}

\* a checkpoint named as the automatic names are, then unnamed ones
CheckpointDocuments ==
    {Document(<<StepEntry("snapshot", YMap(<<<<"name", YStr("snapshot_1")>>>>)),
                StepEntry("snapshot", YMap(<<>>)),
                StepEntry("snapshot", YMap(<<>>))>>)}

Documents ==
    {Document(l) : l \in StepLists(MaxSteps)}
      \cup CheckpointDocuments
      \cup RedirectDocuments
      \cup ReferenceDocuments
      \cup {SeededDocument(l) : l \in StepLists(MaxSeededSteps)}
      \cup LongerDocuments
      \cup PoolDocuments
      \cup OddDocuments

\* answers of the node to one handler
Answer(rc, stdout, receipt_rc, receipt_stdout) ==
    [rc |-> rc, stdout |-> stdout,
     receipt |-> [rc |-> receipt_rc, stdout |-> receipt_stdout]]

NodeFailures == {Answer("fail", "", "fail", ""), Answer("exc", "", "fail", "")}

RpcAnswers == {Answer("ok", "\"0x1\"\n", "fail", "")} \cup NodeFailures

CallAnswers ==
    {Answer("ok", "1\n", "fail", ""), Answer("ok", "0\n", "fail", "")}
      \cup NodeFailures

DeployAnswers ==
    {Answer("ok", "Deployer: " \o UserAddress \o "\nDeployed to: "
                    \o DeployedAddress \o "\nTransaction hash: " \o DeployTxHash,
            "fail", ""),
     Answer("ok", "transactionHash " \o DeployTxHash, "ok",
            "contractAddress " \o DeployedAddress),
     Answer("ok", "transactionHash " \o DeployTxHash, "ok",
            "contract address " \o DeployedAddress),
     Answer("ok", "transactionHash " \o DeployTxHash, "exc", ""),
     Answer("ok", "deployed", "fail", "")}
      \cup NodeFailures

NodeAnswers == RpcAnswers \cup CallAnswers \cup DeployAnswers

\* outputs of `cast wallet list`
WalletAnswers ==
    {[rc |-> "ok", stdout |-> test_accounts[1] \o " (Local)\n" \o test_accounts[2] \o "\n"],
     [rc |-> "ok", stdout |-> "Accounts:\n" \o test_accounts[2] \o "\n"],
     [rc |-> "ok", stdout |-> "\n"],
     [rc |-> "ok", stdout |-> "No accounts\n"],
     [rc |-> "fail", stdout |-> ""],
     [rc |-> "exc", stdout |-> ""]}

(***************************************************************************)
(* Specification of a run: parse_yaml, then execute_scenario               *)
(***************************************************************************)
\* the step-kind tokens of a decoded document
DocTokens(decoded) ==
    LET data == IF IsSeq(decoded) /\ Len(decoded.elems) > 0
                THEN decoded.elems[1] ELSE decoded
        elems == IF IsMap(data) /\ IsSeq(Get(data, "steps"))
                 THEN Get(data, "steps").elems ELSE <<>>
    IN  {StepToken(elems[i]) :
            i \in {j \in 1..Len(elems) : IsMap(elems[j]) /\ PyLen(elems[j]) > 0}}

Init ==
    /\ yaml_doc \in Documents
    /\ parsed = Pending
    /\ scenario = YNull
    /\ accounts = YMap(<<>>)
    /\ pc = "parse"
    /\ steps_executed = 0
    /\ result = YNull
    /\ nodeCalls = <<>>
    /\ dispatched = <<>>
    /\ IdleStep
    /\ IdleCheck
    /\ IdleNorm
    /\ IdleAnvil
    /\ IdleSave

\* parse_yaml: a Scenario, or ValueError and no Scenario
ParseYamlCall ==
    /\ pc = "parse"
    /\ \E order \in IterationOrders(DocTokens(yaml_doc)) :
          LET res == ParseYaml(yaml_doc, order)
          IN  IF res.st = "ok"
              THEN /\ parsed' = Returned
                   /\ scenario' = res.scenario
                   /\ pc' = "NotStarted"
              ELSE /\ parsed' = res
                   /\ scenario' = scenario
                   /\ pc' = "ParseError"
    /\ UNCHANGED <<yaml_doc, accounts, steps_executed, result, nodeCalls,
                   dispatched, stepVars, checkVars, normVars, anvilVars, saveVars>>

\* execute_scenario up to and including _ensure_rpc_connection
EnsureRpcConnection ==
    /\ pc = "NotStarted"
    /\ \E rpc \in {"ok", "fail", "exc"}, anvil \in {"started", "not_started"},
          wallet \in WalletAnswers :
          accounts' = EnsureRpc(accounts, rpc, anvil, wallet)
    /\ pc' = "Preparing"
    /\ UNCHANGED <<yaml_doc, parsed, scenario, steps_executed, result, nodeCalls,
                   dispatched, stepVars, checkVars, normVars, anvilVars, saveVars>>

\* _prepare_roles; an exception leaves through the except block
PrepareRolesCall ==
    /\ pc = "Preparing"
    /\ LET prepared == PrepareRoles(scenario.roles, accounts)
           scn == [scenario EXCEPT !.roles = prepared.roles]
       IN  /\ scenario' = scn
           /\ IF prepared.out = Returned
              THEN pc' = "RunningSteps" /\ result' = result
              ELSE pc' = "Failed"
                   /\ result' = FailedWith(scn, steps_executed, prepared.out)
    /\ UNCHANGED <<yaml_doc, parsed, accounts, steps_executed, nodeCalls,
                   dispatched, stepVars, checkVars, normVars, anvilVars, saveVars>>

\* the calls of one handler, with the index of its step
CallsOf(calls, index) ==
    [i \in 1..Len(calls) |-> [step |-> index, cmd |-> calls[i].cmd]]

\* what an iteration leaves behind whatever the handler did: the scenario
\* as the handler left it, its node calls, and the record of the dispatch
\* with the answer the node gave, if the handler asked the node, and the
\* receipt it gave, if the handler went on to ask for one
Recorded(step, ans, done) ==
    /\ scenario' = done.scn
    /\ nodeCalls' = nodeCalls \o CallsOf(done.calls, steps_executed)
    /\ dispatched' = Append(dispatched,
                            [index |-> steps_executed, type |-> step.type,
                             out |-> done.out.st,
                             exc |-> IF done.out.st = "raised" THEN done.out.exc
                                     ELSE "",
                             rc |-> IF done.calls = <<>> THEN "" ELSE ans.rc,
                             stdout |-> IF done.calls = <<>> THEN ""
                                        ELSE ans.stdout,
                             receipt |-> IF Len(done.calls) > 1 THEN ans.receipt
                                         ELSE [rc |-> "", stdout |-> ""]])

\* variant: the loop goes on with the next step after a handler raised
Iteration_GoOn(step, ans, done) ==
    /\ Recorded(step, ans, done)
    /\ IF done.out = Returned \/ steps_executed + 1 < Len(scenario.steps)
       THEN /\ steps_executed' = steps_executed + 1
            /\ pc' = pc
            /\ result' = result
       ELSE /\ steps_executed' = steps_executed
            /\ pc' = "Failed"
            /\ result' = FailedWith(done.scn, steps_executed, done.out)
    /\ UNCHANGED <<yaml_doc, parsed, accounts, stepVars, checkVars, normVars, anvilVars, saveVars>>

\* one iteration of `for step in scenario.steps`, seen from its end: the
\* counter moves when the handler returned, the except block is entered
\* when it raised
Iteration(step, ans, done) ==
    /\ Recorded(step, ans, done)
    /\ IF done.out = Returned
       THEN /\ steps_executed' = steps_executed + 1
            /\ pc' = pc
            /\ result' = result
       ELSE /\ steps_executed' = steps_executed
            /\ pc' = "Failed"
            /\ result' = FailedWith(done.scn, steps_executed, done.out)
    /\ UNCHANGED <<yaml_doc, parsed, accounts, stepVars, checkVars, normVars, anvilVars, saveVars>>

\* the step the loop is at
CurrentStep == scenario.steps[steps_executed + 1]

\* the branch _execute_step takes for the step the loop is at
CurrentHandler ==
    IF pc = "RunningSteps" /\ steps_executed < Len(scenario.steps)
    THEN HandlerOf(CurrentStep.type)
    ELSE "none"

\* one action per branch of _execute_step: the iteration of the loop for a
\* step of that type, the node answering the handler's calls
SendStep ==
    /\ CurrentHandler = "_execute_send"
    /\ \E ans \in RpcAnswers :
          Iteration(CurrentStep, ans, ExecuteSend(CurrentStep, scenario, ans))

CallStep ==
    /\ CurrentHandler = "_execute_call"
    /\ \E ans \in CallAnswers :
          Iteration(CurrentStep, ans, ExecuteCall(CurrentStep, scenario, ans))

WaitStep ==
    /\ CurrentHandler = "_execute_wait"
    /\ \E ans \in RpcAnswers :
          Iteration(CurrentStep, ans, ExecuteWait(CurrentStep, scenario, ans))

TimeTravelStep ==
    /\ CurrentHandler = "_execute_time_travel"
    /\ \E ans \in RpcAnswers :
          Iteration(CurrentStep, ans, ExecuteTimeTravel(CurrentStep, scenario, ans))

SnapshotStep ==
    /\ CurrentHandler = "_execute_snapshot"
    /\ \E ans \in RpcAnswers :
          Iteration(CurrentStep, ans, ExecuteSnapshot(CurrentStep, scenario, ans))

RevertStep ==
    /\ CurrentHandler = "_execute_revert"
    /\ \E ans \in RpcAnswers :
          Iteration(CurrentStep, ans, ExecuteRevert(CurrentStep, scenario, ans))

AssertStep ==
    /\ CurrentHandler = "_execute_assert"
    /\ \E ans \in RpcAnswers :
          Iteration(CurrentStep, ans, ExecuteAssert(CurrentStep, scenario, ans))

DeployStep ==
    /\ CurrentHandler = "_execute_deploy"
    /\ \E ans \in DeployAnswers :
          Iteration(CurrentStep, ans, ExecuteDeploy(CurrentStep, scenario, ans))

MineStep ==
    /\ CurrentHandler = "_execute_mine"
    /\ \E ans \in RpcAnswers :
          Iteration(CurrentStep, ans, ExecuteMine(CurrentStep, scenario, ans))

SetBalanceStep ==
    /\ CurrentHandler = "_execute_set_balance"
    /\ \E ans \in RpcAnswers :
          Iteration(CurrentStep, ans, ExecuteSetBalance(CurrentStep, scenario, ans))

SetStorageStep ==
    /\ CurrentHandler = "_execute_set_storage"
    /\ \E ans \in RpcAnswers :
          Iteration(CurrentStep, ans, ExecuteSetStorage(CurrentStep, scenario, ans))

LabelStep ==
    /\ CurrentHandler = "_execute_label"
    /\ \E ans \in RpcAnswers :
          Iteration(CurrentStep, ans, ExecuteLabel(CurrentStep, scenario, ans))

ActionStep ==
    /\ CurrentHandler = "_execute_action"
    /\ \E ans \in NodeAnswers :
          Iteration(CurrentStep, ans, ExecuteAction(CurrentStep, scenario, ans))

\* the return of the try block, after the last step
ReturnSuccess ==
    /\ pc = "RunningSteps"
    /\ steps_executed = Len(scenario.steps)
    /\ pc' = "Completed"
    /\ result' = Succeeded(scenario, steps_executed)
    /\ UNCHANGED <<yaml_doc, parsed, scenario, accounts, steps_executed,
                   nodeCalls, dispatched, stepVars, checkVars, normVars, anvilVars, saveVars>>

Next ==
    \/ ParseYamlCall
    \/ EnsureRpcConnection
    \/ PrepareRolesCall
    \/ SendStep
    \/ CallStep
    \/ WaitStep
    \/ TimeTravelStep
    \/ SnapshotStep
    \/ RevertStep
    \/ AssertStep
    \/ DeployStep
    \/ MineStep
    \/ SetBalanceStep
    \/ SetStorageStep
    \/ LabelStep
    \/ ActionStep
    \/ ReturnSuccess

Spec == Init /\ [][Next]_vars

(***************************************************************************)
(* AnvilWrapper (src/mcp_modules/chain.py): start() and stop() called from *)
(* two threads.  _lock is a threading.Lock: acquiring it blocks while any  *)
(* thread holds it, the holder included.                                   *)
(***************************************************************************)
MaxPolls == 2

\* a thread at the entry of the method it calls
Calling(op) == [op |-> op, pc |-> op, ret |-> "none"]

\* a thread whose call has returned a value
Return(c, value) == [c EXCEPT !.pc = "returned", !.ret = value]

InitAnvil ==
    /\ lock = "free"
    /\ process = "none"
    /\ call \in [Threads -> {Calling("start"), Calling("stop")}]
    /\ polls = 0
    /\ IdleStep
    /\ IdleCheck
    /\ IdleRun
    /\ IdleNorm
    /\ IdleSave

\* start(), from `with self._lock` to the call of _wait_for_startup: True
\* when the process is alive; RuntimeError when no port is found; False
\* when Popen raises; otherwise the process is spawned and the lock is kept
StartCall(t) ==
    /\ call[t].pc = "start"
    /\ lock = "free"
    /\ \/ /\ process \in {"starting", "running"}
          /\ call' = [call EXCEPT ![t] = Return(@, "True")]
          /\ UNCHANGED <<lock, process, polls>>
       \/ /\ process \notin {"starting", "running"}
          /\ \E port \in {"found", "none"}, popen \in {"spawned", "raised"} :
                IF port = "none"
                THEN /\ call' = [call EXCEPT ![t].pc = "raised"]
                     /\ UNCHANGED <<lock, process, polls>>
                ELSE IF popen = "raised"
                THEN /\ call' = [call EXCEPT ![t] = Return(@, "False")]
                     /\ UNCHANGED <<lock, process, polls>>
                ELSE /\ call' = [call EXCEPT ![t].pc = "wait_for_startup"]
                     /\ lock' = t
                     /\ process' = "starting"
                     /\ polls' = 0
    /\ UNCHANGED <<stepVars, checkVars, runVars, normVars, saveVars>>

\* one iteration of the loop of _wait_for_startup, and what start() does
\* with its result: True is returned (the lock released) when the endpoint
\* answers 200; when the process has exited or the time is up, start()
\* goes on to self.stop(), the lock still held
WaitForStartup(t) ==
    /\ call[t].pc = "wait_for_startup"
    /\ \E status \in {200, 500} :
          IF polls < MaxPolls /\ process = "running" /\ status = 200
          THEN /\ call' = [call EXCEPT ![t] = Return(@, "True")]
               /\ lock' = "free"
               /\ polls' = polls
          ELSE IF polls < MaxPolls /\ process # "exited"
          THEN /\ polls' = polls + 1
               /\ UNCHANGED <<call, lock>>
          ELSE /\ call' = [call EXCEPT ![t].pc = "stop_in_start"]
               /\ UNCHANGED <<lock, polls>>
    /\ UNCHANGED <<process, stepVars, checkVars, runVars, normVars, saveVars>>

\* stop(), called by a thread or by start(): it takes the lock, ends the
\* process if it is alive and releases the lock; start() then returns False
StopCall(t) ==
    /\ call[t].pc \in {"stop", "stop_in_start"}
    /\ lock = "free"
    /\ \E ended \in {"stopped", "raised"} :
          /\ process' = IF process \in {"starting", "running"} /\ ended = "stopped"
                        THEN "none" ELSE process
          /\ call' = [call EXCEPT ![t] =
                         Return(@, IF call[t].pc = "stop_in_start"
                                      \/ (process \in {"starting", "running"}
                                            /\ ended = "raised")
                                   THEN "False" ELSE "True")]
    /\ UNCHANGED <<lock, polls, stepVars, checkVars, runVars, normVars, saveVars>>

\* the anvil process: its endpoint comes up, or it exits
NodeComesUp ==
    /\ process = "starting"
    /\ process' = "running"
    /\ UNCHANGED <<lock, call, polls, stepVars, checkVars, runVars, normVars, saveVars>>

ProcessExits ==
    /\ process \in {"starting", "running"}
    /\ process' = "exited"
    /\ UNCHANGED <<lock, call, polls, stepVars, checkVars, runVars, normVars, saveVars>>

StartStep == \E t \in Threads : StartCall(t)
WaitStep_Anvil == \E t \in Threads : WaitForStartup(t)
StopStep == \E t \in Threads : StopCall(t)

NextAnvil ==
    \/ StartStep
    \/ WaitStep_Anvil
    \/ StopStep
    \/ NodeComesUp
    \/ ProcessExits

SpecAnvil == InitAnvil /\ [][NextAnvil]_vars

(***************************************************************************)
(* ScenarioRunner.save_scenario, and parse_yaml on the document it wrote   *)
(***************************************************************************)
MaxSaved == 2

\* step_data: the step's data under its kind, the description put into it
SavedStep(step) ==
    YMap(<<<<step.type,
             IF Truthy(step.description)
             THEN Put(step.data, "description", step.description)
             ELSE step.data>>>>)

\* scenario_data
SaveScenario(scn) ==
    YMap(<<<<"name", scn.name>>,
           <<"description", scn.description>>,
           <<"roles", YMap([i \in 1..Len(scn.roles.items) |->
                              <<scn.roles.items[i][1],
                                scn.roles.items[i][2].address>>])>>,
           <<"contracts", scn.contracts>>,
           <<"steps", YSeq([i \in 1..Len(scn.steps) |-> SavedStep(scn.steps[i])])>>>>)

\* Step objects of every kind, with and without data and description
StepsToSave ==
    {MakeStep(k, b) : k \in supported_step_types,
                      b \in {YMap(<<>>),
                             YMap(<<<<"from", YStr("deployer")>>,
                                    <<"description", YStr("d")>>>>)}}
      \cup {[MakeStep(k, YMap(<<<<"name", YStr("s1")>>>>))
                EXCEPT !.description = YStr("d")] : k \in supported_step_types}

RECURSIVE ListsToSave(_)
ListsToSave(n) ==
    IF n = 0 THEN {<<>>}
    ELSE ListsToSave(n - 1)
           \cup {Append(l, e) : l \in {x \in ListsToSave(n - 1) : Len(x) = n - 1},
                                e \in StepsToSave}

InitSave ==
    /\ \E l \in ListsToSave(MaxSaved) :
          to_save = [name |-> YStr("demo"), description |-> YNull,
                     roles |-> YMap(<<<<"deployer",
                                        Role("deployer", YStr("$acc0"), YNull, YNull)>>>>),
                     steps |-> l,
                     contracts |-> YMap(<<>>),
                     snapshots |-> YMap(<<>>)]
    /\ written = Pending
    /\ reloaded = Pending
    /\ IdleStep
    /\ IdleCheck
    /\ IdleRun
    /\ IdleNorm
    /\ IdleAnvil

SaveCall ==
    /\ written = Pending
    /\ written' = SaveScenario(to_save)
    /\ UNCHANGED <<to_save, reloaded, stepVars, checkVars, runVars, normVars,
                   anvilVars>>

ReloadCall ==
    /\ written # Pending
    /\ reloaded = Pending
    /\ \E order \in IterationOrders(DocTokens(written)) :
          reloaded' = ParseYaml(written, order)
    /\ UNCHANGED <<to_save, written, stepVars, checkVars, runVars, normVars,
                   anvilVars>>

NextSave == SaveCall \/ ReloadCall

SpecSave == InitSave /\ [][NextSave]_vars

(***************************************************************************)
(* Properties                                                              *)
(***************************************************************************)
\* the entry is a mapping whose step-kind token is a non-empty string
HasToken(e) == IsMap(e) /\ PyLen(e) > 0 /\ StepToken(e) # ""

\* C5: canonicalization is total over the closed kind set: for a non-empty
\* string token _parse_step raises nothing and returns a Step whose type is
\* one of the 13 kinds, and _execute_step never takes its "Unsupported step
\* type" branch for such a Step.
C5_CanonicalizationTotal ==
    (HasToken(entry) /\ pstep # Pending) =>
        /\ pstep.st = "ok"
        /\ pstep.type \in supported_step_types
        /\ Cardinality(supported_step_types) = 13
        /\ handler # "unsupported"

\* C5 witness: an unknown token went to the catch-all kind and was dispatched
C5_Witness ==
    /\ HasToken(entry) /\ StepToken(entry) = "xyz"
    /\ pstep.st = "ok" /\ pstep.type = "action"
    /\ handler = "_execute_action"

\* C6: every token of the alias table canonicalizes to its listed target;
\* in particular action -> send, check -> assert, restore -> revert.
C6_AliasStability ==
    (HasToken(entry) /\ pstep # Pending) =>
        /\ StepToken(entry) \in AliasTokens =>
              pstep.st = "ok" /\ pstep.type = step_aliases[StepToken(entry)]
        /\ StepToken(entry) = "action" => pstep.st = "ok" /\ pstep.type = "send"
        /\ StepToken(entry) = "check" => pstep.st = "ok" /\ pstep.type = "assert"
        /\ StepToken(entry) = "restore" => pstep.st = "ok" /\ pstep.type = "revert"

\* C6 witness: the token action was parsed into a send step
C6_Witness ==
    /\ HasToken(entry) /\ StepToken(entry) = "action"
    /\ pstep.st = "ok" /\ pstep.type = "send"

\* C9: for a strict numeric expectation >N or <N with a decimal N, actual
\* is read as an integer (base 16 after 0x, base 10 otherwise); >N returns
\* iff actual > N, <N returns iff actual < N, and AssertionError is raised
\* otherwise: ("0x64", ">99") and ("100", ">99") return, ("99", ">99") raises.
C9_StrictNumericCoercion ==
    outcome # Pending =>
        /\ (given.op \in {">", "<"} /\ given.ef \in {"dec", "spaced"}) =>
              LET passes == IF given.op = ">" THEN given.a > given.n
                            ELSE given.a < given.n
              IN  IF passes THEN outcome = Returned
                  ELSE outcome.st = "raised" /\ outcome.exc = "AssertionError"
        /\ (arg_actual \in {"0x64", "100"} /\ arg_expected = ">99") =>
              outcome = Returned
        /\ (arg_actual = "99" /\ arg_expected = ">99") =>
              outcome.st = "raised" /\ outcome.exc = "AssertionError"

\* C9 witness: the hex actual 0x64 passed >99
C9_Witness ==
    arg_actual = "0x64" /\ arg_expected = ">99" /\ outcome = Returned

\* the run has got past the parse
Started == pc \in {"NotStarted", "Preparing", "RunningSteps", "Completed", "Failed"}

\* the number of handler invocations that returned
ReturnedCount ==
    Cardinality({i \in 1..Len(dispatched) : dispatched[i].out = "returned"})

\* C1: the steps are dispatched in list order, one at a time and each at most
\* once: the i-th dispatch is that of the i-th step of the list, every
\* dispatch before the last one returned without raising, every node call
\* belongs to a dispatched step and the calls come in the order of the steps;
\* once a handler has raised the run is Failed and nothing more can happen
\* in it (no later dispatch, no second dispatch of the failed step, no node
\* call).
C1_SequentialDispatch ==
    Started =>
      /\ Len(dispatched) <= Len(scenario.steps)
      /\ \A i \in 1..Len(dispatched) :
            /\ dispatched[i].index = i - 1
            /\ dispatched[i].type = scenario.steps[i].type
            /\ i < Len(dispatched) => dispatched[i].out = "returned"
      /\ steps_executed = ReturnedCount
      /\ \A j \in 1..Len(nodeCalls) :
            /\ nodeCalls[j].step < Len(dispatched)
            /\ j > 1 => nodeCalls[j - 1].step <= nodeCalls[j].step
      /\ (Len(dispatched) > 0 /\ dispatched[Len(dispatched)].out = "raised")
            => pc = "Failed" /\ ~ENABLED Next

\* a first step that asked the node and raised, with a second step never
\* dispatched
C1_Witness ==
    /\ pc = "Failed"
    /\ Len(scenario.steps) = 2
    /\ Len(dispatched) = 1
    /\ dispatched[1].out = "raised"
    /\ Len(nodeCalls) = 1

\* C2: a call of execute_scenario always comes to a result instead of an
\* exception: while it is under way no result exists and the loop is either
\* at a step that has a handler or past the last step, and the run ends
\* either Completed or Failed with a result, after which nothing happens.
\* success=true goes with steps_executed = total_steps and no error;
\* success=false goes with an error text and with steps_executed the number
\* of handlers that returned, which is at most total_steps and is the index
\* of the step that raised.
C2_OneTerminalResult ==
    /\ pc \in {"NotStarted", "Preparing", "RunningSteps"} => result = YNull
    /\ pc = "RunningSteps" =>
          /\ steps_executed <= Len(scenario.steps)
          /\ steps_executed < Len(scenario.steps)
                => CurrentHandler \in {HandlerOf(k) : k \in supported_step_types}
    /\ pc \in {"Completed", "Failed"} =>
          /\ result # YNull
          /\ ~ENABLED Next
          /\ result.success = (pc = "Completed")
          /\ result.total_steps = Len(scenario.steps)
    /\ pc = "Completed" =>
          /\ result.steps_executed = result.total_steps
          /\ result.error = YNull
    /\ pc = "Failed" =>
          /\ IsStr(result.error)
          /\ result.steps_executed = ReturnedCount
          /\ result.steps_executed <= result.total_steps
          /\ Len(dispatched) > 0 =>
                /\ dispatched[Len(dispatched)].out = "raised"
                /\ dispatched[Len(dispatched)].index = result.steps_executed

\* a run that failed in its second step of two, and so reports one step
C2_Witness ==
    /\ pc = "Failed"
    /\ result.success = FALSE
    /\ result.steps_executed = 1
    /\ result.total_steps = 2
    /\ Len(dispatched) = 2

\* an expectation as the specification reads it: the operator, two
\* characters before one, and the operand after it
ExpectOp(e) ==
    IF SubSeq(e, 1, 2) \in {"==", "!=", ">=", "<="} THEN SubSeq(e, 1, 2)
    ELSE IF SubSeq(e, 1, 1) \in {">", "<"} THEN SubSeq(e, 1, 1)
    ELSE ""

ExpectOperand(e) == Strip(SubSeq(e, Len(ExpectOp(e)) + 1, Len(e)))

\* a number written in decimal or in 0x-hex
NumberOf(s) == PyInt(s, IF StartsWith(Lower(s), "0x") THEN 16 ELSE 10)

\* the comparison an operator stands for does not hold between two numbers
NotHolding(op, a, n) ==
    CASE op = "==" -> a # n
      [] op = "!=" -> a = n
      [] op = ">" -> ~(a > n)
      [] op = ">=" -> ~(a >= n)
      [] op = "<" -> ~(a < n)
      [] op = "<=" -> ~(a <= n)
      [] OTHER -> FALSE

\* the expectation e is not met by actual: numbers are compared as numbers,
\* and == and != compare other text as text
Unmet(actual, e) ==
    IF NumberOf(actual).ok /\ NumberOf(ExpectOperand(e)).ok
    THEN NotHolding(ExpectOp(e), NumberOf(actual).n, NumberOf(ExpectOperand(e)).n)
    ELSE \/ ExpectOp(e) = "==" /\ actual # ExpectOperand(e)
         \/ ExpectOp(e) = "!=" /\ actual = ExpectOperand(e)

\* the k-th dispatch evaluated an expectation: an assert step, or a call
\* step with expect whose node call gave an output
ChecksExpectation(k) ==
    /\ IsStr(Get(scenario.steps[k].data, "expect"))
    /\ \/ dispatched[k].type = "assert"
       \/ dispatched[k].type = "call" /\ dispatched[k].rc = "ok"

\* the actual value the k-th dispatch compared
ActualOf(k) ==
    IF dispatched[k].type = "assert"
    THEN PyStr(AssertValue(scenario.steps[k].data, scenario))
    ELSE Strip(dispatched[k].stdout)

\* the run failed at the k-th dispatch and its result reports index k - 1
\* with an error text that holds the actual value and the operand
ReportsUnmet(k) ==
    /\ pc = "Failed"
    /\ k = Len(dispatched)
    /\ result.success = FALSE
    /\ result.steps_executed = k - 1
    /\ IsIn(ActualOf(k), result.error.s)
    /\ IsIn(ExpectOperand(Get(scenario.steps[k].data, "expect").s), result.error.s)

\* C3: whenever a call step with expect or an assert step, at index k - 1,
\* met an actual value that does not satisfy its expectation, the run is
\* Failed with success=false, steps_executed = k - 1 and an error text that
\* contains the actual value and the expected operand.
C3_UnmetExpectationReported ==
    \A k \in 1..Len(dispatched) :
        (ChecksExpectation(k)
           /\ Unmet(ActualOf(k), Get(scenario.steps[k].data, "expect").s))
        => ReportsUnmet(k)

\* the loop is at a revert step whose name is not bound in snapshots
AtUnboundRevert ==
    /\ CurrentHandler = "_execute_revert"
    /\ ~In(Get(CurrentStep.data, "name"), scenario.snapshots)

\* C4: the iteration for a revert step whose name is not bound in the
\* snapshots table raises a ValueError without any node call: the step
\* leaves the run Failed with the "Snapshot not found" error, the list of
\* node calls as it was and the scenario, its snapshots table included, as it
\* was.
C4_UnboundRevertRaisesFirst ==
    [][AtUnboundRevert =>
         /\ pc' = "Failed"
         /\ dispatched'[Len(dispatched')].type = "revert"
         /\ dispatched'[Len(dispatched')].exc = "ValueError"
         /\ StartsWith(result'.error.s, "Snapshot not found: ")
         /\ nodeCalls' = nodeCalls
         /\ scenario'.snapshots = scenario.snapshots
         /\ scenario' = scenario]_vars

\* a run that took a snapshot and then failed in a revert step naming
\* another snapshot
C4_Witness ==
    /\ pc = "Failed"
    /\ Len(dispatched) = 2
    /\ dispatched[1].type = "snapshot"
    /\ dispatched[2].type = "revert"
    /\ dispatched[2].exc = "ValueError"
    /\ Len(scenario.snapshots.items) = 1
    /\ Len(nodeCalls) = 1

\* the root of a decoded document: the first element of a sequence root
DocRoot(decoded) ==
    IF IsSeq(decoded) /\ Len(decoded.elems) > 0 THEN decoded.elems[1] ELSE decoded

\* the entries of the document's steps sequence
DocSteps(decoded) ==
    IF IsMap(DocRoot(decoded)) /\ IsSeq(Get(DocRoot(decoded), "steps"))
    THEN Get(DocRoot(decoded), "steps").elems
    ELSE <<>>

\* the document with one send entry and one call entry
SendThenCall ==
    Document(<<StepEntry("send", YMap(<<<<"from", YStr("deployer")>>,
                                        <<"to", YStr("Counter")>>,
                                        <<"fn", YStr("increment()")>>>>)),
               StepEntry("call", YMap(<<<<"to", YStr("Counter")>>,
                                        <<"fn", YStr("number()")>>,
                                        <<"expect", YStr("==1")>>>>))>>)

\* C8: a Scenario as parse returns it has one Step per entry of the document's
\* steps sequence, the i-th Step being the one of the i-th entry (its
\* canonical kind and its body), so that no entry is dropped, merged,
\* duplicated or reordered; the document with a send entry and a call entry
\* gives two steps, send first.
C8_StepListPreserved ==
    (parsed = Returned /\ pc = "NotStarted") =>
      /\ Len(scenario.steps) = Len(DocSteps(yaml_doc))
      /\ \E order \in IterationOrders(DocTokens(yaml_doc)) :
            \A i \in 1..Len(DocSteps(yaml_doc)) :
               /\ scenario.steps[i].type
                     = Canonicalize(StepToken(DocSteps(yaml_doc)[i]), order)
               /\ scenario.steps[i].data = StepDataDict(DocSteps(yaml_doc)[i])
      /\ yaml_doc = SendThenCall =>
            /\ Len(scenario.steps) = 2
            /\ scenario.steps[1].type = "send"
            /\ scenario.steps[2].type = "call"

\* the send and call document, parsed
C8_Witness ==
    /\ yaml_doc = SendThenCall
    /\ parsed = Returned
    /\ pc = "NotStarted"
    /\ Len(scenario.steps) = 2

\* the decoded document is one that parse has to refuse: it is empty, its
\* root is an empty sequence or no mapping, name is absent, steps is present
\* and no sequence, or one of the step entries does not parse
Refused(decoded) ==
    \/ ~Truthy(decoded)
    \/ IsSeq(decoded) /\ Len(decoded.elems) = 0
    \/ ~IsMap(DocRoot(decoded))
    \/ ~Has(DocRoot(decoded), "name")
    \/ Has(DocRoot(decoded), "steps") /\ ~IsSeq(Get(DocRoot(decoded), "steps"))
    \/ \E i \in 1..Len(DocSteps(decoded)) :
          \A order \in IterationOrders(DocTokens(decoded)) :
             ParseStep(DocSteps(decoded)[i], order).st # "ok"

\* C10: for a document that is empty, has an empty sequence or something
\* other than a mapping as root, lacks name, has steps that is no sequence
\* or has a step entry that does not parse, the call of parse ends with a
\* ValueError raised and not with a Scenario returned; whenever parse
\* raises, no Scenario, partial or other, exists and no execution begins.
C10_ParseErrors ==
    /\ (pc \in {"ParseError", "NotStarted"} /\ Refused(yaml_doc)) =>
          /\ pc = "ParseError"
          /\ parsed.st = "raised"
          /\ parsed.exc = "ValueError"
    /\ (pc # "parse" /\ parsed # Returned) =>
          /\ pc = "ParseError"
          /\ scenario = YNull
          /\ result = YNull
          /\ ~ENABLED Next

\* the parse of a document whose second step entry is empty has raised
C10_Witness ==
    /\ pc = "ParseError"
    /\ Len(DocSteps(yaml_doc)) = 2
    /\ ParseStep(DocSteps(yaml_doc)[1], StepTypeValues).st = "ok"
    /\ ParseStep(DocSteps(yaml_doc)[2], StepTypeValues).st = "raised"
    /\ parsed.exc = "ValueError"
    /\ scenario = YNull

\* C7: the text normalizer is idempotent: applied to its own result it
\* returns that result unchanged, for every input text
C7_NormalizeIdempotent ==
    (first_pass # Pending /\ second_pass # Pending)
        => second_pass.text = first_pass.text

\* the iteration under way is that of a revert step whose handler returns
RevertReturns ==
    /\ CurrentHandler = "_execute_revert"
    /\ steps_executed' = steps_executed + 1

\* C11: a revert step that succeeds leaves the symbol table as it was:
\* roles, contracts and snapshots after the step are those before it, the
\* name it reverted to is still bound to the same snapshot id, and when the
\* next step is a revert of the same name its lookup passes again.
C11_RevertKeepsTables ==
    [][RevertReturns =>
         /\ scenario'.roles = scenario.roles
         /\ scenario'.contracts = scenario.contracts
         /\ scenario'.snapshots = scenario.snapshots
         /\ In(Get(CurrentStep.data, "name"), scenario'.snapshots)
         /\ Get(scenario'.snapshots, KeyOf(Get(CurrentStep.data, "name")))
               = Get(scenario.snapshots, KeyOf(Get(CurrentStep.data, "name")))
         /\ (/\ CurrentHandler' = "_execute_revert"
             /\ Get(CurrentStep'.data, "name") = Get(CurrentStep.data, "name"))
               => ~AtUnboundRevert']_vars

\* a checkpoint, a deployment after it and two reverts to the checkpoint,
\* all returned, with the checkpoint and the contract still bound
C11_Witness ==
    /\ pc = "Completed"
    /\ Len(dispatched) = 4
    /\ dispatched[1].type = "snapshot"
    /\ dispatched[2].type = "deploy"
    /\ dispatched[3].type = "revert"
    /\ dispatched[4].type = "revert"
    /\ Has(scenario.snapshots, "s1")
    /\ Get(scenario.contracts, "Counter") = YStr(DeployedAddress)

\* the first 0x-prefixed part of 42 characters in a text, "" when none
AddressIn(text) == FirstHexPart(Split(Strip(text), "\n"), 1, 42, FALSE)

\* the address a deployment is to be bound to, given what the create call
\* printed and what the receipt call, if made and answered, printed
AddressToBind(created, receipt) ==
    IF AddressIn(created) # "" THEN AddressIn(created)
    ELSE IF receipt.rc = "ok" /\ AddressIn(receipt.stdout) # ""
    THEN AddressIn(receipt.stdout)
    ELSE ZeroAddress

\* the iteration under way is that of a deploy step, and its last dispatch
\* record tells whether the create call was made and how it ended
AtDeploy == CurrentHandler = "_execute_deploy"
Created == dispatched'[Len(dispatched')]

\* C12: a deploy step whose create call succeeds returns and binds its
\* contract name, whatever was bound to it before, to the 42-character 0x
\* address in the create output, else to the one in the receipt, else to
\* the all-zero address; a deploy step whose create call fails raises and
\* leaves the contracts table as it was.
C12_DeployBindsAddress ==
    [][AtDeploy =>
         /\ Created.rc = "ok" =>
               /\ steps_executed' = steps_executed + 1
               /\ pc' = "RunningSteps"
               /\ Get(scenario'.contracts, KeyOf(Get(CurrentStep.data, "contract")))
                     = YStr(AddressToBind(Created.stdout, Created.receipt))
         /\ Created.rc \in {"fail", "exc"} =>
               /\ pc' = "Failed"
               /\ scenario'.contracts = scenario.contracts]_vars

\* every role of the scenario has a str as its address
RolesWellTyped ==
    \A i \in 1..Len(scenario.roles.items) :
       IsStr(scenario.roles.items[i][2].address)

\* a role as preparation has to leave it: an address that starts with $ and
\* is bound in the account pool is replaced by the pool's address, every
\* other role is as it was
PreparedRole(role) ==
    IF StartsWith(role.address.s, "$") /\ Has(accounts, role.address.s)
    THEN [role EXCEPT !.address = Get(accounts, role.address.s)]
    ELSE role

AllHandlers == {HandlerOf(k) : k \in supported_step_types}

\* C13: role preparation, for roles whose addresses are text, raises
\* nothing: a role whose address starts with $ gets the account-pool
\* address bound to that token, or keeps its symbolic address when the
\* token is not in the pool; a role with a literal address is unchanged;
\* and the run goes on to the dispatch of its first step.
C13_RolePreparation ==
    [][(pc = "Preparing" /\ RolesWellTyped) =>
         /\ pc' = "RunningSteps"
         /\ result' = YNull
         /\ Len(scenario'.roles.items) = Len(scenario.roles.items)
         /\ \A i \in 1..Len(scenario.roles.items) :
               /\ scenario'.roles.items[i][1] = scenario.roles.items[i][1]
               /\ scenario'.roles.items[i][2]
                     = PreparedRole(scenario.roles.items[i][2])
         /\ Len(scenario'.steps) > 0 => CurrentHandler' \in AllHandlers]_vars

\* a run whose pool had no $acc0: the role deployer still has its symbolic
\* address, the role user its literal one, and the first step was dispatched
C13_Witness ==
    /\ Len(dispatched) >= 1
    /\ ~Has(accounts, "$acc0")
    /\ Get(scenario.roles, "deployer").address = YStr("$acc0")
    /\ Get(scenario.roles, "user").address = YStr(UserAddress)

\* a value that names something: text that is not empty and is no 0x
\* address
IsName(v) == IsStr(v) /\ v.s # "" /\ ~StartsWith(v.s, "0x")

\* the step the loop is at names, as its sender, a role that the roles
\* table does not hold
NamesUnboundRole ==
    /\ CurrentHandler \in {"_execute_send", "_execute_deploy"}
    /\ IsName(Get(CurrentStep.data, "from"))
    /\ ~Has(scenario.roles, Get(CurrentStep.data, "from").s)

\* the step the loop is at names, as its target, a contract that the
\* contracts table does not hold
NamesUnboundContract ==
    /\ CurrentHandler \in {"_execute_send", "_execute_call"}
    /\ IsName(Get(CurrentStep.data, "to"))
    /\ ~Has(scenario.contracts, Get(CurrentStep.data, "to").s)

\* C14: the iteration for a step that names a role (from of send or
\* deploy) or a contract (to of send or call) absent from the symbol table
\* leaves the run Failed with an error text that holds the name.
C14_UnresolvedSymbolFails ==
    [][/\ NamesUnboundRole =>
             /\ pc' = "Failed"
             /\ IsIn(Get(CurrentStep.data, "from").s, result'.error.s)
       /\ NamesUnboundContract =>
             /\ pc' = "Failed"
             /\ IsIn(Get(CurrentStep.data, "to").s, result'.error.s)]_vars

\* the artifacts hold a table under a key
Holds(artifacts, key, table) ==
    key \in DOMAIN artifacts /\ artifacts[key] = table

\* C15: the artifacts of the result of a run, Completed or Failed, hold
\* the roles, the contracts and the snapshots as they stand at the end of
\* the run, the bindings of the steps executed before a failure included.
C15_ArtifactsHoldTables ==
    pc \in {"Completed", "Failed"} =>
      /\ Holds(result.artifacts, "roles", CollectArtifacts(scenario).roles)
      /\ Holds(result.artifacts, "contracts", scenario.contracts)
      /\ Holds(result.artifacts, "snapshots", scenario.snapshots)

EmptyTable == YMap(<<>>)

\* the step of parse_yaml under way returns a Scenario
ParseReturns == pc = "parse" /\ parsed' = Returned

\* an iteration of the step loop is under way
AtStep == pc = "RunningSteps" /\ steps_executed < Len(scenario.steps)

\* C16 as stated: a Scenario returned by parse has empty contracts and
\* snapshots, and an iteration of the step loop changes contracts only for
\* a step of kind deploy and snapshots only for a step of kind snapshot.
C16_TablesOnlyFromSteps ==
    [][/\ ParseReturns =>
             /\ scenario'.contracts = EmptyTable
             /\ scenario'.snapshots = EmptyTable
       /\ AtStep =>
             /\ scenario'.contracts # scenario.contracts
                   => CurrentStep.type = "deploy"
             /\ scenario'.snapshots # scenario.snapshots
                   => CurrentStep.type = "snapshot"]_vars

\* the contracts table the document brings, empty when it brings none
DocContracts(decoded) == OrEmpty(GetOr(DocRoot(decoded), "contracts", EmptyTable))

\* the step is of the kind, or is a send or action step whose type or value
\* field, in lower case, reads as the kind
ActsAs(step, kind) ==
    \/ step.type = kind
    \/ /\ step.type \in {"send", "action"}
       /\ \E f \in {"type", "value"} :
             /\ IsStr(Get(step.data, f))
             /\ Lower(Get(step.data, f).s) = kind

\* C16, amended: a Scenario returned by parse has empty snapshots and, as
\* contracts, the contracts table of its document; an iteration of the
\* step loop changes contracts only for a step that is of kind deploy or
\* a send or action step handed on as deploy, and snapshots only for a
\* step that is of kind snapshot or a send or action step handed on as
\* snapshot.
C16_TablesFromDocumentAndSteps ==
    [][/\ ParseReturns =>
             /\ scenario'.contracts = DocContracts(yaml_doc)
             /\ scenario'.snapshots = EmptyTable
       /\ AtStep =>
             /\ scenario'.contracts # scenario.contracts
                   => ActsAs(CurrentStep, "deploy")
             /\ scenario'.snapshots # scenario.snapshots
                   => ActsAs(CurrentStep, "snapshot")]_vars

\* a step that is not of kind snapshot has bound a snapshot
C16_Witness ==
    /\ Len(dispatched) = 1
    /\ dispatched[1].type # "snapshot"
    /\ dispatched[1].out = "returned"
    /\ Len(scenario.snapshots.items) = 1

\* the entry's token is, as written, one of the 13 kind names
KindToken == HasToken(entry) /\ StepToken(entry) \in supported_step_types

\* C17 as stated: the exact kind match comes first, so a token that is
\* exactly a kind name is parsed into a step of that same kind.
C17_ExactMatchFirst ==
    (KindToken /\ pstep # Pending) =>
        pstep.st = "ok" /\ pstep.type = StepToken(entry)

\* C17, amended: the alias table comes first and the exact kind match
\* second: the token action, the one kind name that the alias table
\* lists, is parsed into a send step, and a token that is exactly one of
\* the 12 other kind names is parsed into a step of that same kind.
C17_AliasThenExactMatch ==
    (KindToken /\ pstep # Pending) =>
        /\ pstep.st = "ok"
        /\ pstep.type = IF StepToken(entry) = "action" THEN "send"
                        ELSE StepToken(entry)

\* the token mine was parsed into a mine step
C17_Witness ==
    /\ HasToken(entry) /\ StepToken(entry) = "mine"
    /\ pstep.st = "ok" /\ pstep.type = "mine"

\* the kinds the fuzzy fallback matches a token with, and those among them
\* that are substrings of the token
MatchedKinds(tok) == {k \in supported_step_types : IsSimilar(tok, k)}
KindsWithin(tok) == {k \in supported_step_types : IsIn(Lower(k), Lower(tok))}

\* the candidates the claim prefers, and the longest of a set of kinds
PreferredKinds(tok) ==
    IF KindsWithin(tok) # {} THEN KindsWithin(tok) ELSE MatchedKinds(tok)
LongestOf(kinds) == {k \in kinds : \A j \in kinds : Len(j) <= Len(k)}

\* the entry's token is neither a kind nor an alias key and matches several
\* kinds
SeveralMatches ==
    /\ HasToken(entry)
    /\ StepToken(entry) \notin supported_step_types
    /\ Lower(StepToken(entry)) \notin AliasTokens
    /\ Cardinality(MatchedKinds(StepToken(entry))) >= 2

\* C18: for a token that is neither a kind nor an alias and matches several
\* kinds, the step's kind is the longest of the kinds that are substrings
\* of the token, or, when none is, the longest of the kinds that matched,
\* and it is the same under every iteration order of the kind set.
C18_FuzzyChoiceDeterministic ==
    (SeveralMatches /\ pstep # Pending) =>
        /\ pstep.st = "ok"
        /\ pstep.type \in LongestOf(PreferredKinds(StepToken(entry)))
        /\ \A order \in EntryOrders(entry) : ParseStep(entry, order) = pstep

RaisedAs(exc) == outcome.st = "raised" /\ outcome.exc = exc

\* C19: an expectation >=N or <=N with an integer operand N never raises
\* ValueError; >=N returns whenever actual > N and <=N whenever actual < N,
\* and it raises AssertionError when actual is on the wrong side of N.
C19_InclusiveComparisons ==
    (given.op \in {">=", "<="} /\ given.ef \in {"dec", "spaced"}
       /\ outcome # Pending) =>
        /\ ~RaisedAs("ValueError")
        /\ (given.op = ">=" /\ given.a > given.n) => outcome = Returned
        /\ (given.op = "<=" /\ given.a < given.n) => outcome = Returned
        /\ (given.op = ">=" /\ given.a < given.n) => RaisedAs("AssertionError")
        /\ (given.op = "<=" /\ given.a > given.n) => RaisedAs("AssertionError")

\* C20: the operand of > and < may be written as 0x-hex and is compared as
\* the integer it stands for: the outcome is the one the same operand has
\* in decimal, so ("101", ">0x64") returns and ("100", ">0x64") raises
\* AssertionError.
C20_HexOperand ==
    outcome # Pending =>
        /\ (given.op \in {">", "<"} /\ given.ef = "hex" /\ given.n >= 0) =>
              outcome = CheckExpectation(arg_actual,
                                         given.op \o ToString(given.n))
        /\ (arg_actual = "101" /\ arg_expected = ">0x64") => outcome = Returned
        /\ (arg_actual = "100" /\ arg_expected = ">0x64")
              => RaisedAs("AssertionError")

DeclaredOperators == {"==", "!=", ">", ">=", "<", "<=", "contains", "exists"}

BeginsWithDeclared(expected) ==
    \E op \in DeclaredOperators : StartsWith(expected, op)

Unsupported(expected) ==
    Raised("ValueError", "Unsupported expectation format: " \o expected)

\* C21: the check refuses an expectation as unsupported (ValueError, no
\* operand read, no comparison made) exactly when the expectation begins
\* with none of the declared operators ==, !=, >, >=, <, <=, contains,
\* exists; an expectation that begins with contains or exists is evaluated
\* against the actual value, so it returns or raises AssertionError.
C21_UnsupportedOnlyUndeclared ==
    outcome # Pending =>
        /\ outcome = Unsupported(arg_expected)
              <=> ~BeginsWithDeclared(arg_expected)
        /\ (StartsWith(arg_expected, "contains")
              \/ StartsWith(arg_expected, "exists"))
              => (outcome = Returned \/ RaisedAs("AssertionError"))

\* the step the loop is at has, as its sender, a $-token of the account pool
NamesPoolEntry ==
    /\ CurrentHandler \in {"_execute_send", "_execute_deploy"}
    /\ IsStr(Get(CurrentStep.data, "from"))
    /\ StartsWith(Get(CurrentStep.data, "from").s, "$")
    /\ Has(accounts, Get(CurrentStep.data, "from").s)

\* a command gives addr as its sender, and holds the token nowhere
SentFrom(cmd, addr, token) ==
    /\ \E j \in 1..(Len(cmd) - 1) : cmd[j] = "--from" /\ cmd[j + 1] = addr
    /\ \A j \in 1..Len(cmd) : cmd[j] # token

\* C22: a send or deploy step whose from field is a $-token of the account
\* pool builds its node call with the pool's address for that token as the
\* sender, not with the token.
C22_PoolTokenResolved ==
    [][NamesPoolEntry =>
         /\ Len(nodeCalls') > Len(nodeCalls)
         /\ SentFrom(nodeCalls'[Len(nodeCalls) + 1].cmd,
                     Get(accounts, Get(CurrentStep.data, "from").s).s,
                     Get(CurrentStep.data, "from").s)]_vars

\* the name a $-reference stands for
Referred(value) == SubSeq(value.s, 2, Len(value.s))

\* the step the loop is at is an assert whose value is a $-reference to a
\* name bound in the contracts table or in the roles table
RefersToBound ==
    /\ CurrentHandler = "_execute_assert"
    /\ IsStr(Get(CurrentStep.data, "value"))
    /\ StartsWith(Get(CurrentStep.data, "value").s, "$")
    /\ \/ Has(scenario.contracts, Referred(Get(CurrentStep.data, "value")))
       \/ Has(scenario.roles, Referred(Get(CurrentStep.data, "value")))

\* the address bound to a name, the contracts table first
BoundAddress(name) ==
    IF Has(scenario.contracts, name) THEN Get(scenario.contracts, name)
    ELSE Get(scenario.roles, name).address

\* the last dispatch ended as the check of actual against expected ends
EndedAs(record, checked) ==
    /\ record.out = checked.st
    /\ checked.st = "raised" => record.exc = checked.exc

\* C23: an assert step whose value is a $-reference to a bound contract or
\* role ends as the check of that contract's or role's address against the
\* expectation ends: the address, not the $-token, is what is checked.
C23_AssertResolvesReference ==
    [][RefersToBound =>
         EndedAs(dispatched'[Len(dispatched')],
                 CheckExpectationValue(
                     PyStr(BoundAddress(Referred(Get(CurrentStep.data, "value")))),
                     Get(CurrentStep.data, "expect")))]_vars

\* the kind an action step's body names: its type field, or its value when
\* there is no type; send when neither names a kind
NamedKind(data) ==
    IF Has(data, "type")
    THEN IF IsStr(Get(data, "type")) /\ Get(data, "type").s \in ActionValues
         THEN Get(data, "type").s ELSE "send"
    ELSE IF IsStr(Get(data, "value")) /\ Lower(Get(data, "value").s) \in ActionValues
         THEN Lower(Get(data, "value").s) ELSE "send"

\* the handler of each kind an action step can name
HandlerOfKind(kind, step, scn, ans) ==
    CASE kind = "send" -> ExecuteSend(step, scn, ans)
      [] kind = "call" -> ExecuteCall(step, scn, ans)
      [] kind = "deploy" -> ExecuteDeploy(step, scn, ans)
      [] kind = "assert" -> ExecuteAssert(step, scn, ans)
      [] kind = "wait" -> ExecuteWait(step, scn, ans)
      [] kind = "mine" -> ExecuteMine(step, scn, ans)
      [] kind = "snapshot" -> ExecuteSnapshot(step, scn, ans)
      [] kind = "revert" -> ExecuteRevert(step, scn, ans)

\* the iteration left behind what a handler did
LeftBy(done) ==
    /\ scenario' = done.scn
    /\ nodeCalls' = nodeCalls \o CallsOf(done.calls, steps_executed)
    /\ EndedAs(dispatched'[Len(dispatched')], done.out)

\* C24: an action step has the effect of the handler of the kind its body
\* names (type, or value when there is no type; send, call, deploy, assert,
\* wait, mine, snapshot or revert), and of the send handler when the body
\* names no kind: the scenario, the node calls and the outcome of the step
\* are those of that handler on the step.
C24_ActionRedirects ==
    [][CurrentHandler = "_execute_action" =>
         \E ans \in NodeAnswers :
            LeftBy(HandlerOfKind(NamedKind(CurrentStep.data),
                                 [CurrentStep EXCEPT !.type =
                                     NamedKind(CurrentStep.data)],
                                 scenario, ans))]_vars

\* the entry carries a type field holding a string that names a kind; the
\* kind action is left out, since the alias table turns it into send
TypeShaped ==
    /\ IsMap(entry)
    /\ Has(entry, "type")
    /\ IsStr(Get(entry, "type"))
    /\ Get(entry, "type").s \in supported_step_types \ {"action"}

\* C25: a step entry with a type field that holds the name of a kind is
\* parsed into a Step of that kind whose data are the entry's other fields,
\* wherever the type key stands among the keys of the entry.
C25_TypeFieldPromoted ==
    (TypeShaped /\ pstep # Pending) =>
        /\ pstep.st = "ok"
        /\ pstep.type = Get(entry, "type").s
        /\ pstep.data = Without(entry, "type")

\* $acc0..$acc9 bound to the ten fixed test addresses, and nothing else
FixedPool ==
    YMap([i \in 1..10 |-> <<"$acc" \o ToString(i - 1), YStr(test_accounts[i])>>])

\* every address of the pool was read from a listing of the node's wallet
Discovered(accts) ==
    \E w \in WalletAnswers :
       /\ w.rc = "ok"
       /\ \A i \in 1..Len(accts.items) : IsIn(accts.items[i][2].s, w.stdout)

\* C26: whatever the liveness check, the node start and the wallet listing
\* gave, preparation of the connection goes on to role preparation with no
\* result produced and a non-empty account pool; a pool that was not read
\* from the node is exactly $acc0..$acc9 bound to the ten fixed addresses.
C26_PoolNeverEmpty ==
    [][pc = "NotStarted" =>
         /\ pc' = "Preparing"
         /\ result' = YNull
         /\ Len(accounts'.items) > 0
         /\ ~Discovered(accounts') => accounts' = FixedPool]_vars

\* preparation ended with the fixed pool
C26_Witness ==
    /\ pc = "Preparing"
    /\ accounts = FixedPool
    /\ ~Discovered(accounts)

\* the entry has several keys and the key chosen as its kind is not `type`
SeveralKeys ==
    /\ IsMap(entry)
    /\ Len(entry.items) > 1
    /\ ChosenKey(entry) # "type"

\* the keys of the entry beside the chosen one
Siblings == {k \in {entry.items[i][1] : i \in 1..Len(entry.items)} :
                k # ChosenKey(entry)}

\* C27: parsing a step entry of several keys loses no field silently:
\* unless parsing fails, every key beside the one chosen as the kind is in
\* the Step's data with the value it has in the entry.
C27_NoFieldLost ==
    (SeveralKeys /\ pstep # Pending) =>
        \/ pstep.st = "raised"
        \/ \A k \in Siblings :
              Has(pstep.data, k) /\ Get(pstep.data, k) = Get(entry, k)

\* the iteration of a snapshot step without a name, the handler returning
UnnamedSnapshotReturns ==
    /\ CurrentHandler = "_execute_snapshot"
    /\ ~Has(CurrentStep.data, "name")
    /\ steps_executed' = steps_executed + 1

\* C28: a snapshot step without a name that succeeds binds a name that was
\* not bound before: the snapshots table grows by exactly one entry and
\* every binding it had is kept.
C28_AutoNameIsFresh ==
    [][UnnamedSnapshotReturns =>
         /\ Len(scenario'.snapshots.items) = Len(scenario.snapshots.items) + 1
         /\ \A i \in 1..Len(scenario.snapshots.items) :
               /\ Has(scenario'.snapshots, scenario.snapshots.items[i][1])
               /\ Get(scenario'.snapshots, scenario.snapshots.items[i][1])
                     = scenario.snapshots.items[i][2]]_vars

\* C29: start() always returns.  A start() that found the process exited,
\* or not ready when the startup time was up, is never left waiting for a
\* lock it holds itself: it can go on to stop the process and return False.
C29_StartAlwaysReturns ==
    \A t \in Threads :
       call[t].pc = "stop_in_start" => ENABLED StopCall(t)

\* the kinds of a list of steps, in order
KindsOf(steps) == [i \in 1..Len(steps) |-> steps[i].type]

\* C30: parsing the document that save_scenario wrote for a Scenario gives
\* a Scenario whose steps have the same kinds in the same order, for every
\* kind of the closed set, action included.
C30_SaveThenParseKeepsKinds ==
    reloaded # Pending =>
        /\ reloaded.st = "ok"
        /\ KindsOf(reloaded.scenario.steps) = KindsOf(to_save.steps)

====
